---- MODULE Spec2Model ----
(***************************************************************************)
(* CGrammarReader (TestGrammar/src/GrammarFile.cpp): load() reads one TSV  *)
(* grammar file into data_list, check() validates the loaded rows and      *)
(* writes its findings to report_stream (specification Spec).              *)
(*                                                                         *)
(* XMLCreator (gcxml): createXML() reduces the rows of one TSV grammar     *)
(* file to a target PDF version and appends an ENTRY for every row kept    *)
(* (specification SpecXml).                                                *)
(*                                                                         *)
(* A string is a sequence of one-character strings, so that splitting,     *)
(* case folding and pattern matching are computed character by character.  *)
(***************************************************************************)
EXTENDS Integers, Sequences, FiniteSets, TLC

\* ------------------------------------------------------------------------
\* Bounds of the model
\* ------------------------------------------------------------------------

\* the largest number of data rows (lines after the header) of a grammar file
MaxRows == 2

\* ------------------------------------------------------------------------
\* Column positions (GrammarFile.h) and the column delimiter
\* ------------------------------------------------------------------------

TSV_KEYNAME == 0
TSV_TYPE == 1
TSV_SINCEVERSION == 2
TSV_DEPRECATEDIN == 3
TSV_REQUIRED == 4
TSV_INDIRECTREF == 5
TSV_INHERITABLE == 6
TSV_DEFAULTVALUE == 7
TSV_POSSIBLEVALUES == 8
TSV_SPECIALCASE == 9
TSV_LINK == 10
TSV_NOTES == 11

\* check(): "if (vec.size() < 10)"
CheckMinColumns == 10

delimeter == "\t"

\* ------------------------------------------------------------------------
\* String literals of check()
\* ------------------------------------------------------------------------

str_Key == <<"K", "e", "y">>
str_TYPE == <<"T", "Y", "P", "E">>
str_SinceVersion == <<"S", "i", "n", "c", "e", "V", "e", "r", "s", "i", "o", "n">>
str_DeprecatedIn == <<"D", "e", "p", "r", "e", "c", "a", "t", "e", "d", "I", "n">>
str_REQUIRED == <<"R", "E", "Q", "U", "I", "R", "E", "D">>
str_INDIRECTREFERENCE == <<"I", "N", "D", "I", "R", "E", "C", "T", "R", "E", "F", "E", "R", "E", "N", "C", "E">>
str_INHERITABLE == <<"I", "N", "H", "E", "R", "I", "T", "A", "B", "L", "E">>
str_DefaultValue == <<"D", "e", "f", "a", "u", "l", "t", "V", "a", "l", "u", "e">>
str_PossibleValues == <<"P", "o", "s", "s", "i", "b", "l", "e", "V", "a", "l", "u", "e", "s">>
str_SpecialCase == <<"S", "p", "e", "c", "i", "a", "l", "C", "a", "s", "e">>
str_Link == <<"L", "i", "n", "k">>
str_DICTIONARY == <<"D", "I", "C", "T", "I", "O", "N", "A", "R", "Y">>
str_NUMBER_TREE == <<"N", "U", "M", "B", "E", "R", "-", "T", "R", "E", "E">>
str_NAME_TREE == <<"N", "A", "M", "E", "-", "T", "R", "E", "E">>
str_STREAM == <<"S", "T", "R", "E", "A", "M">>
str_ARRAY == <<"A", "R", "R", "A", "Y">>
str_TRUE == <<"T", "R", "U", "E">>
str_FALSE == <<"F", "A", "L", "S", "E">>
str_EmptySet == <<"[", "]">>
str_BOOLEAN == <<"B", "O", "O", "L", "E", "A", "N">>
str_NUMBER == <<"N", "U", "M", "B", "E", "R">>
str_STRING == <<"S", "T", "R", "I", "N", "G">>
str_NAME == <<"N", "A", "M", "E">>
str_NULL == <<"N", "U", "L", "L">>
str_REFERENCE == <<"R", "E", "F", "E", "R", "E", "N", "C", "E">>

\* the recognized type vocabulary (utils.h basic_types): the basic and the
\* complex type tags, in the upper case load() folds the Type column to
basic_types ==
    { str_BOOLEAN, str_NUMBER, str_STRING, str_NAME, str_NULL, str_REFERENCE,
      str_ARRAY, str_DICTIONARY, str_STREAM, str_NAME_TREE, str_NUMBER_TREE }

\* ------------------------------------------------------------------------
\* Character and string functions
\* ------------------------------------------------------------------------

LowerCase == <<"a", "b", "c", "d", "e", "f", "g", "h", "i", "j", "k", "l", "m",
               "n", "o", "p", "q", "r", "s", "t", "u", "v", "w", "x", "y", "z">>
UpperCase == <<"A", "B", "C", "D", "E", "F", "G", "H", "I", "J", "K", "L", "M",
               "N", "O", "P", "Q", "R", "S", "T", "U", "V", "W", "X", "Y", "Z">>
Digits == {"0", "1", "2", "3", "4", "5", "6", "7", "8", "9"}

\* ::toupper on one character
toupper(c) ==
    IF \E n \in DOMAIN LowerCase : LowerCase[n] = c
    THEN UpperCase[CHOOSE n \in DOMAIN LowerCase : LowerCase[n] = c]
    ELSE c

\* std::transform(s.begin(), s.end(), s.begin(), ::toupper)
transform_toupper(s) == [p \in 1..Len(s) |-> toupper(s[p])]

\* s.find(c, from): the first position >= from holding c, 0 for npos
\* (positions are counted from 1)
find(s, c, from) ==
    IF \E p \in from..Len(s) : s[p] = c
    THEN CHOOSE p \in from..Len(s) : s[p] = c /\ \A q \in from..(p - 1) : s[q] # c
    ELSE 0

\* the tokenizer loop of load(): cut s at every separator; the text after the
\* last separator (possibly empty) is the last word
RECURSIVE SplitFrom(_, _, _)
SplitFrom(s, sep, prev_pos) ==
    LET pos == find(s, sep, prev_pos)
    IN  IF pos = 0
        THEN << SubSeq(s, prev_pos, Len(s)) >>
        ELSE << SubSeq(s, prev_pos, pos - 1) >> \o SplitFrom(s, sep, pos + 1)

SplitLine(line) == SplitFrom(line, delimeter, 1)

\* utils: split(s, separator), the same cut for ';' and ',' lists
split(s, separator) == SplitFrom(s, separator, 1)

\* vec[TSV_x]: columns are numbered from 0
Col(vec, c) == vec[c + 1]

\* ------------------------------------------------------------------------
\* Inputs: the text of grammar files
\* ------------------------------------------------------------------------

in_Type == <<"T", "y", "p", "e">>
in_type == <<"t", "y", "p", "e">>
in_Required == <<"R", "e", "q", "u", "i", "r", "e", "d">>
in_IndirectReference == <<"I", "n", "d", "i", "r", "e", "c", "t", "R", "e", "f", "e", "r", "e", "n", "c", "e">>
in_Inheritable == <<"I", "n", "h", "e", "r", "i", "t", "a", "b", "l", "e">>
in_Note == <<"N", "o", "t", "e">>
in_Name == <<"N", "a", "m", "e">>
in_link == <<"l", "i", "n", "k">>
in_K1 == <<"K", "i", "d", "s">>
in_K2 == <<"C", "o", "u", "n", "t">>
in_1_0 == <<"1", ".", "0">>
in_name == <<"n", "a", "m", "e">>
in_Array == <<"A", "r", "r", "a", "y">>
in_ARRAY_name == <<"A", "R", "R", "A", "Y", ";", "n", "a", "m", "e">>
in_DICTIONARY == <<"D", "I", "C", "T", "I", "O", "N", "A", "R", "Y">>
in_STREAM == <<"S", "T", "R", "E", "A", "M">>
in_ARRAY == <<"A", "R", "R", "A", "Y">>
in_name_foo == <<"n", "a", "m", "e", ";", "f", "o", "o">>
in_ARRAY_DICTIONARY == <<"A", "R", "R", "A", "Y", ";", "D", "I", "C", "T", "I", "O", "N", "A", "R", "Y">>
in_name_ARRAY == <<"n", "a", "m", "e", ";", "A", "R", "R", "A", "Y">>
in_name_string == <<"n", "a", "m", "e", ";", "s", "t", "r", "i", "n", "g">>
in_TRUE == <<"T", "R", "U", "E">>
in_false == <<"f", "a", "l", "s", "e">>
in_fn_IsPresent == <<"f", "n", ":", "I", "s", "P", "r", "e", "s", "e", "n", "t", "(", "K", "i", "d", "s", ")">>
in_Obj == <<"[", "O", "b", "j", "]">>
in_Nope == <<"[", "N", "o", "p", "e", "]">>
in_Obj_Nope == <<"[", "O", "b", "j", ",", "N", "o", "p", "e", "]">>
in_No_pe == <<"[", "N", "o", "-", "p", "e", "]">>
in_Empty_Obj == <<"[", "]", ";", "[", "O", "b", "j", "]">>
in_Empty_Empty == <<"[", "]", ";", "[", "]">>
in_Obj_Obj == <<"[", "O", "b", "j", "]", ";", "[", "O", "b", "j", "]">>
in_x == <<"[", "x", "]">>
in_x_Empty == <<"[", "x", "]", ";", "[", "]">>
in_Empty_x == <<"[", "]", ";", "[", "x", "]">>
in_a == <<"[", "a", "]">>
in_TRUE_br == <<"[", "T", "R", "U", "E", "]">>
obj_Obj == <<"O", "b", "j">>
obj_Nope == <<"N", "o", "p", "e">>

\* the cells of a line joined by the delimiter
RECURSIVE Join(_)
Join(cells) ==
    IF Len(cells) = 1 THEN cells[1]
    ELSE cells[1] \o << delimeter >> \o Join(Tail(cells))

\* the header cells as the grammar's TSV files write them
HeaderCells ==
    << str_Key, in_Type, str_SinceVersion, str_DeprecatedIn, in_Required,
       in_IndirectReference, in_Inheritable, str_DefaultValue,
       str_PossibleValues, str_SpecialCase, str_Link, in_Note >>

GoodHeader == Join(HeaderCells)

\* header rows: as written, without the optional Note column, already in
\* upper case, in lower case, with a wrong name, with a wrongly cased name
\* in a column that is not folded, with too few columns
HeaderInputs ==
    { GoodHeader,
      Join(SubSeq(HeaderCells, 1, 11)),
      Join([HeaderCells EXCEPT ![2] = str_TYPE, ![5] = str_REQUIRED,
                               ![6] = str_INDIRECTREFERENCE, ![7] = str_INHERITABLE]),
      Join([HeaderCells EXCEPT ![2] = in_type]),
      Join([HeaderCells EXCEPT ![1] = in_Name]),
      Join([HeaderCells EXCEPT ![11] = in_link]),
      Join(SubSeq(HeaderCells, 1, 10)),
      Join(SubSeq(HeaderCells, 1, 3)) }

\* one data row of twelve columns
Row(key, type, required, indirect, inheritable, default, possible, link) ==
    Join(<< key, type, in_1_0, <<>>, required, indirect, inheritable, default,
            possible, <<>>, link, <<>> >>)

RowInputs ==
    { Row(in_K1, in_name,             in_TRUE,         in_false, in_false, <<>>, <<>>,       <<>>),
      Row(in_K1, in_Array,            in_fn_IsPresent, in_false, in_TRUE,  <<>>, <<>>,       in_Obj),
      Row(in_K2, in_ARRAY_name,       in_TRUE,         in_false, in_false, <<>>, <<>>,       in_Obj),
      Row(in_K1, in_DICTIONARY,       in_TRUE,         in_false, in_false, <<>>, <<>>,       in_Nope),
      Row(in_K2, in_DICTIONARY,       in_TRUE,         in_TRUE,  in_false, <<>>, <<>>,       in_Obj_Nope),
      Row(in_K1, in_STREAM,           in_TRUE,         in_false, in_false, <<>>, <<>>,       in_No_pe),
      Row(in_K2, in_ARRAY,            in_TRUE,         in_false, in_false, <<>>, <<>>,       str_EmptySet),
      Row(in_K1, in_ARRAY,            in_TRUE,         in_false, in_false, <<>>, <<>>,       <<>>),
      Row(in_K1, in_name_foo,         in_TRUE,         in_false, in_false, <<>>, <<>>,       <<>>),
      Row(in_K2, in_ARRAY,            in_TRUE,         in_false, in_false, <<>>, in_x,       in_Obj),
      Row(in_K2, in_ARRAY_DICTIONARY, in_TRUE,         in_false, in_false, <<>>, str_EmptySet, in_Obj_Obj),
      Row(in_K1, in_name_ARRAY,       in_TRUE,         in_false, in_false, <<>>, in_x_Empty, in_Empty_Obj),
      Row(in_K2, in_name_ARRAY,       in_TRUE,         in_false, in_false, <<>>, in_Empty_x, in_Empty_Empty),
      Row(in_K1, in_name_string,      in_TRUE,         in_false, in_false, in_a, <<>>,       <<>>),
      Row(in_K2, in_name_string,      in_TRUE,         in_false, in_false, <<>>, in_a,       <<>>),
      Row(in_K1, in_name,             in_TRUE,         in_false, in_fn_IsPresent, <<>>, <<>>, <<>>),
      Row(in_K2, in_name_string,      in_TRUE,         in_TRUE_br, in_false, <<>>, <<>>,     <<>>) }

\* every sequence of at most n data rows
RowSeqs(n) == UNION { [1..m -> RowInputs] : m \in 0..n }

\* the files read: a good header followed by any data rows, any header
\* followed by at most one data row, and the empty file
FileInputs ==
    { << GoodHeader >> \o rows : rows \in RowSeqs(MaxRows) }
      \cup { << h >> \o rows : h \in HeaderInputs, rows \in RowSeqs(1) }
      \cup { <<>> }

\* the grammar objects (<name>.tsv) that exist next to the checked file
FolderInputs == { {obj_Obj}, {obj_Obj, obj_Nope} }

\* ------------------------------------------------------------------------
\* State
\* ------------------------------------------------------------------------

VARIABLES
    lines,          \* the text of file_name, line by line
    folder,         \* the names of the grammar files in get_path_dir(file_name)
    pos,            \* the number of lines getline has consumed
    data_list,      \* CGrammarReader::data_list
    pc,             \* "load", "check", "rows", "done", "crashed"
    load_ret,       \* what load() returned: "none", "true", "false"
    check_ret,      \* what check() returned: "none", "true", "false"
    report_stream,  \* the findings written, in order
    i,              \* the row index of check()'s loop
    processed,      \* check()'s vector of the key names seen
    \* XMLCreator.createXML
    xml_lines,      \* the text of the TSV file tsv_reader reads, line by line
    pdf_ver,        \* XMLCreator.pdf_ver, in tenths
    xml_pos,        \* the number of lines tsv_reader.readLine has returned
    object_elem,    \* the ENTRY children of object_elem, in order
    xml_pc,         \* "idle", "open", "rows", "done", "exception"
    \* the validation run started by single_pdf
    walk_doc,       \* the object graph of the document
    to_process,     \* the pending (object, expected type) pairs
    mapped,         \* the run's visited set of (object, expected type) pairs
    walked,         \* the pairs walked, in order
    skipped,        \* the pairs accepted without a walk, in order
    walk_report,    \* the diagnostics of the run, in order
    walk_pc,        \* "idle", "start", "run", "done"
    \* ArlingtonPDFSDK
    ctx,            \* ArlingtonPDFSDK::ctx is not nullptr
    debugging,      \* ArlingtonPDFShim::debugging
    sdk_file,       \* the file get_trailer is working on
    sdk_returned,   \* what the calls of get_trailer returned, in order
    sdk_log,        \* the calls of initialize and shutdown, in order
    sdk_pc,         \* "idle", "ready", "aborted", "crashed"
    \* one while loop of XMLCreator.nodeValues over a list
    loop_list,      \* "links" or "possible": which of the two loops runs
    loop_input,     \* the string the loop started with
    loop_a,         \* the local a: what is left of the string
    loop_values,    \* the texts of the VALUE elements appended, in order
    loop_pc,        \* "idle", "loop", "done"
    \* one call of a scalar accessor of the PDF SDK
    pdf_object,     \* the PDF object the accessor is invoked on
    accessor,       \* the accessor invoked
    retval,         \* how the call ended
    obj_pc,         \* "idle", "object", "called"
    \* main in folder mode
    main_entry,     \* the directory entry being processed
    report_dir,     \* the names that exist in the report folder
    rptfile,        \* the local rptfile
    tries,          \* the turns of the loop over the existing names, for this entry
    reports,        \* the reports written, in order
    main_doc,       \* main's PdfDoc* doc: 0 for nullptr, else the document's number
    opened,         \* the number of documents OpenDoc has returned
    closes,         \* the documents Close was called on, in order
    started,        \* the validation runs started, in order
    main_pc         \* "idle", "next", "exists", "single_pdf", "crashed", "done"

grammar_vars == << lines, folder, pos, data_list, pc, load_ret, check_ret,
                   report_stream, i, processed >>

xml_vars == << xml_lines, pdf_ver, xml_pos, object_elem, xml_pc >>

walk_vars == << walk_doc, to_process, mapped, walked, skipped, walk_report, walk_pc >>

sdk_vars == << ctx, debugging, sdk_file, sdk_returned, sdk_log, sdk_pc >>

loop_vars == << loop_list, loop_input, loop_a, loop_values, loop_pc >>

obj_vars == << pdf_object, accessor, retval, obj_pc >>

main_vars == << main_entry, report_dir, rptfile, tries, reports, main_doc, opened, closes,
                started, main_pc >>

vars == << grammar_vars, xml_vars, walk_vars, sdk_vars, loop_vars, obj_vars, main_vars >>

\* no validation runs
WalkIdle ==
    /\ walk_doc = <<>>
    /\ to_process = <<>>
    /\ mapped = {}
    /\ walked = <<>>
    /\ skipped = <<>>
    /\ walk_report = <<>>
    /\ walk_pc = "idle"

\* the PDF SDK is not used
SdkIdle ==
    /\ ctx = FALSE
    /\ debugging = FALSE
    /\ sdk_file = <<>>
    /\ sdk_returned = <<>>
    /\ sdk_log = <<>>
    /\ sdk_pc = "idle"

\* no loop of nodeValues runs on its own
LoopIdle ==
    /\ loop_list = "none"
    /\ loop_input = <<>>
    /\ loop_a = <<>>
    /\ loop_values = <<>>
    /\ loop_pc = "idle"

\* no accessor is invoked
ObjIdle ==
    /\ pdf_object = <<>>
    /\ accessor = "none"
    /\ retval = "none"
    /\ obj_pc = "idle"

\* main does not run
MainIdle ==
    /\ main_entry = <<>>
    /\ report_dir = {}
    /\ rptfile = <<>>
    /\ tries = 0
    /\ reports = <<>>
    /\ main_doc = 0
    /\ opened = 0
    /\ closes = <<>>
    /\ started = <<>>
    /\ main_pc = "idle"

\* of the components modelled, only one runs in a behaviour
LoopObjMainIdle == LoopIdle /\ ObjIdle /\ MainIdle

\* no XMLCreator runs
XmlIdle ==
    /\ xml_lines = <<>>
    /\ pdf_ver = 0
    /\ xml_pos = 0
    /\ object_elem = <<>>
    /\ xml_pc = "idle"

\* no CGrammarReader runs
GrammarIdle ==
    /\ lines = <<>>
    /\ folder = {}
    /\ pos = 0
    /\ data_list = <<>>
    /\ pc = "idle"
    /\ load_ret = "none"
    /\ check_ret = "none"
    /\ report_stream = <<>>
    /\ i = 0
    /\ processed = <<>>

Init ==
    /\ lines \in FileInputs
    /\ folder \in FolderInputs
    /\ pos = 0
    /\ data_list = <<>>
    /\ pc = "load"
    /\ load_ret = "none"
    /\ check_ret = "none"
    /\ report_stream = <<>>
    /\ i = 0
    /\ processed = <<>>
    /\ XmlIdle
    /\ WalkIdle
    /\ SdkIdle
    /\ LoopObjMainIdle

\* ------------------------------------------------------------------------
\* CGrammarReader::load
\* ------------------------------------------------------------------------

\* the four columns load() converts to upper case
UpperCased(vec) ==
    [vec EXCEPT ![TSV_TYPE + 1] = transform_toupper(@),
                ![TSV_REQUIRED + 1] = transform_toupper(@),
                ![TSV_INDIRECTREF + 1] = transform_toupper(@),
                ![TSV_INHERITABLE + 1] = transform_toupper(@)]

\* the first line must have at least TSV_NOTES columns
FirstLineTooShort(list, vec) == list = <<>> /\ Len(vec) < TSV_NOTES

\* one turn of the getline loop
\* the columns load() converts to upper case
UpperCasedColumns == { TSV_TYPE, TSV_REQUIRED, TSV_INDIRECTREF, TSV_INHERITABLE }

\* the columns among them that vec does not have: vec[TSV_x] is read past
\* the end of the vector
ColumnsPastEnd(vec) == { c \in UpperCasedColumns : c >= Len(vec) }

\* what the read past the end of vec leads to is not defined: the program
\* is ended, or it goes on with the row as it is
PastEndOutcomes == { "abort", "goes on" }

\* the conversion of the columns vec has
UpperCasedPresent(vec) ==
    [n \in DOMAIN vec |->
        IF (n - 1) \in UpperCasedColumns THEN transform_toupper(vec[n]) ELSE vec[n]]

LoadLine ==
    /\ pc = "load"
    /\ pos < Len(lines)
    /\ LET vec == SplitLine(lines[pos + 1])
       IN  IF FirstLineTooShort(data_list, vec)
           THEN /\ load_ret' = "false"
                /\ pc' = "done"
                /\ UNCHANGED data_list
           ELSE IF ColumnsPastEnd(vec) = {}
           THEN /\ data_list' = Append(data_list, UpperCased(vec))
                /\ UNCHANGED << load_ret, pc >>
           ELSE \E outcome \in PastEndOutcomes :
                  IF outcome = "abort"
                  THEN /\ pc' = "crashed"
                       /\ UNCHANGED << data_list, load_ret >>
                  ELSE /\ data_list' = Append(data_list, UpperCasedPresent(vec))
                       /\ UNCHANGED << load_ret, pc >>
    /\ pos' = pos + 1
    /\ UNCHANGED << lines, folder, check_ret, report_stream, i, processed >>
    /\ UNCHANGED << xml_vars, walk_vars, sdk_vars, loop_vars, obj_vars, main_vars >>

\* getline fails at the end of the file: load() returns true
LoadReturn ==
    /\ pc = "load"
    /\ pos = Len(lines)
    /\ load_ret' = "true"
    /\ pc' = "check"
    /\ UNCHANGED << lines, folder, pos, data_list, check_ret, report_stream, i, processed >>
    /\ UNCHANGED << xml_vars, walk_vars, sdk_vars, loop_vars, obj_vars, main_vars >>

\* ------------------------------------------------------------------------
\* CGrammarReader::check
\* ------------------------------------------------------------------------

\* one line written to report_stream: the message, the key name after
\* "file_name::" and the text the message quotes (a type, a link, a value)
Finding(kind, key, arg) == [kind |-> kind, key |-> key, arg |-> arg]

RECURSIVE Flatten(_)
Flatten(ss) == IF ss = <<>> THEN <<>> ELSE Head(ss) \o Flatten(Tail(ss))

\* a slip: the Link column's name is not compared
WrongHeaders_NoLink(vec) ==
    \/ Col(vec, TSV_KEYNAME) # str_Key
    \/ Col(vec, TSV_TYPE) # str_TYPE
    \/ Col(vec, TSV_SINCEVERSION) # str_SinceVersion
    \/ Col(vec, TSV_DEPRECATEDIN) # str_DeprecatedIn
    \/ Col(vec, TSV_REQUIRED) # str_REQUIRED
    \/ Col(vec, TSV_INDIRECTREF) # str_INDIRECTREFERENCE
    \/ Col(vec, TSV_INHERITABLE) # str_INHERITABLE
    \/ Col(vec, TSV_DEFAULTVALUE) # str_DefaultValue
    \/ Col(vec, TSV_POSSIBLEVALUES) # str_PossibleValues
    \/ Col(vec, TSV_SPECIALCASE) # str_SpecialCase

\* the header comparison of check(), on the stored (upper-cased) first row
WrongHeaders(vec) ==
    \/ Col(vec, TSV_KEYNAME) # str_Key
    \/ Col(vec, TSV_TYPE) # str_TYPE
    \/ Col(vec, TSV_SINCEVERSION) # str_SinceVersion
    \/ Col(vec, TSV_DEPRECATEDIN) # str_DeprecatedIn
    \/ Col(vec, TSV_REQUIRED) # str_REQUIRED
    \/ Col(vec, TSV_INDIRECTREF) # str_INDIRECTREFERENCE
    \/ Col(vec, TSV_INHERITABLE) # str_INHERITABLE
    \/ Col(vec, TSV_DEFAULTVALUE) # str_DefaultValue
    \/ Col(vec, TSV_POSSIBLEVALUES) # str_PossibleValues
    \/ Col(vec, TSV_SPECIALCASE) # str_SpecialCase
    \/ Col(vec, TSV_LINK) # str_Link

\* check() up to its loop: the three early returns, or the loop is entered
CheckHeader ==
    /\ pc = "check"
    /\ IF data_list = <<>>
       THEN /\ report_stream' = Append(report_stream, Finding("Empty grammar file", <<>>, <<>>))
            /\ check_ret' = "false"
            /\ pc' = "done"
            /\ UNCHANGED << i, processed >>
       ELSE IF Len(data_list[1]) < CheckMinColumns
       THEN /\ report_stream' = Append(report_stream, Finding("Wrong number of columns", <<>>, <<>>))
            /\ check_ret' = "false"
            /\ pc' = "done"
            /\ UNCHANGED << i, processed >>
       ELSE IF WrongHeaders(data_list[1])
       THEN /\ report_stream' = Append(report_stream, Finding("Wrong headers for columns", <<>>, <<>>))
            /\ check_ret' = "false"
            /\ pc' = "done"
            /\ UNCHANGED << i, processed >>
       ELSE /\ pc' = "rows"
            /\ i' = 1
            /\ processed' = <<>>
            /\ UNCHANGED << report_stream, check_ret >>
    /\ UNCHANGED << lines, folder, pos, data_list, load_ret >>
    /\ UNCHANGED << xml_vars, walk_vars, sdk_vars, loop_vars, obj_vars, main_vars >>

\* std::find(processed.begin(), processed.end(), key) != processed.end()
InProcessed(list, key) == \E n \in DOMAIN list : list[n] = key

\* a slip: the key is never remembered
DuplicateKeyCheck_NoPush(list, key) ==
    IF ~InProcessed(list, key)
    THEN [processed |-> list, findings |-> <<>>]
    ELSE [processed |-> list,
          findings |-> << Finding("Duplicate keys in", key, <<>>) >>]

\* the duplicate-key test: the key is remembered, or reported
DuplicateKeyCheck(list, key) ==
    IF ~InProcessed(list, key)
    THEN [processed |-> Append(list, key), findings |-> <<>>]
    ELSE [processed |-> list,
          findings |-> << Finding("Duplicate keys in", key, <<>>) >>]

\* std::regex_match(s, "^\[[A-Z,a-z,0-9,_,\,]*\]$")
LinkClass ==
    { LowerCase[n] : n \in DOMAIN LowerCase } \cup { UpperCase[n] : n \in DOMAIN UpperCase }
        \cup Digits \cup { "_", "," }

regex_match(s) ==
    /\ Len(s) >= 2
    /\ s[1] = "["
    /\ s[Len(s)] = "]"
    /\ \A p \in 2..(Len(s) - 1) : s[p] \in LinkClass

\* a slip: ARRAY is left out of the types that must be linked
LinkedType_NoArray(t) ==
    \/ t = str_DICTIONARY
    \/ t = str_NUMBER_TREE
    \/ t = str_NAME_TREE
    \/ t = str_STREAM

\* the complex types that must be linked
LinkedType(t) ==
    \/ t = str_DICTIONARY
    \/ t = str_NUMBER_TREE
    \/ t = str_NAME_TREE
    \/ t = str_STREAM
    \/ t = str_ARRAY

\* the complex types that must not have possible values
ComplexType(t) ==
    \/ t = str_ARRAY
    \/ t = str_DICTIONARY
    \/ t = str_NUMBER_TREE
    \/ t = str_NAME_TREE
    \/ t = str_STREAM

\* file_exists(get_path_dir(file_name) + "/" + lnk + ".tsv")
file_exists(dir, lnk) == lnk \in dir

\* a slip: only the first name of a segment is looked up
DirectLinkFindings_FirstOnly(direct_links, key, dir) ==
    IF direct_links[1] # <<>> /\ ~file_exists(dir, direct_links[1])
    THEN << Finding("Link doesn't exist", key, direct_links[1]) >>
    ELSE <<>>

\* the loop over the names of one link segment
DirectLinkFindings(direct_links, key, dir) ==
    Flatten([n \in DOMAIN direct_links |->
        IF direct_links[n] # <<>> /\ ~file_exists(dir, direct_links[n])
        THEN << Finding("Link doesn't exist", key, direct_links[n]) >>
        ELSE <<>>])

\* a segment that matches the pattern and is "[]" where a complex type stands
NotLinked(types, links, link_pos) ==
    /\ Len(types) >= link_pos
    /\ links[link_pos] = str_EmptySet
    /\ LinkedType(types[link_pos])

\* one turn of the loop over the link segments (link_pos counted from 1)
LinkSegmentFindings(types, links, link_pos, key, dir) ==
    IF ~regex_match(links[link_pos])
    THEN << Finding("Wrong pattern in links", key, <<>>) >>
    ELSE (IF NotLinked(types, links, link_pos)
          THEN << Finding("Type not linked in", key, types[link_pos]) >>
          ELSE <<>>)
         \o DirectLinkFindings(
                split(SubSeq(links[link_pos], 2, Len(links[link_pos]) - 1), ","),
                key, dir)

\* a slip: only more links than types count as a mismatch
LinkArityDiffers_Greater(types, links) == Len(links) > Len(types)

\* links.size() != types.size()
LinkArityDiffers(types, links) == Len(links) # Len(types)

\* "if (vc[TSV_LINK] != "")": everything check() does with the Link column
LinkFindings(vc, types, links, dir) ==
    IF Col(vc, TSV_LINK) # <<>>
    THEN (IF LinkArityDiffers(types, links)
          THEN << Finding("Wrong # of types vs. # of links", Col(vc, TSV_KEYNAME), <<>>) >>
          ELSE <<>>)
         \o Flatten([link_pos \in DOMAIN links |->
                LinkSegmentFindings(types, links, link_pos, Col(vc, TSV_KEYNAME), dir)])
    ELSE <<>>

\* a slip: only the first type of the list is looked up
TypeFindings_FirstOnly(types, key) ==
    IF types[1] \notin basic_types
    THEN << Finding("Wrong type", key, types[1]) >>
    ELSE <<>>

\* "check if each type is ok"
TypeFindings(types, key) ==
    Flatten([n \in DOMAIN types |->
        IF types[n] \notin basic_types
        THEN << Finding("Wrong type", key, types[n]) >>
        ELSE <<>>])

\* def_val[t_pos] is read although def_val has no such element: the read is
\* out of range and its outcome is not defined. The string read may differ
\* from "[]", may equal it, or the read may end the program.
OutOfRangeOutcomes == { "differs", "equals", "abort" }

\* the positions (from 1) at which the possible-value loop reads def_val
ReadsDefVal(types, vc) ==
    { t_pos \in DOMAIN types :
        ComplexType(types[t_pos]) /\ Col(vc, TSV_POSSIBLEVALUES) # <<>> }

\* the positions at which that read is past the end of def_val
ReadsPastEnd(types, vc) ==
    { t_pos \in ReadsDefVal(types, vc) :
        t_pos > Len(split(Col(vc, TSV_POSSIBLEVALUES), ";")) }

\* "check if complex type does have possible value": the loop from t_pos on;
\* ub gives the outcome of each out-of-range read
RECURSIVE PossibleValueLoop(_, _, _, _)
PossibleValueLoop(types, vc, ub, t_pos) ==
    IF t_pos > Len(types) THEN [findings |-> <<>>, aborted |-> FALSE]
    ELSE
      LET def_val == split(Col(vc, TSV_POSSIBLEVALUES), ";")
          rest == PossibleValueLoop(types, vc, ub, t_pos + 1)
          found == << Finding("Complex type does have possible value defined",
                              Col(vc, TSV_KEYNAME), Col(vc, TSV_POSSIBLEVALUES)) >>
      IN  IF t_pos \notin ReadsDefVal(types, vc) THEN rest
          ELSE IF t_pos <= Len(def_val)
          THEN (IF def_val[t_pos] # str_EmptySet
                THEN [rest EXCEPT !.findings = found \o @]
                ELSE rest)
          ELSE CASE ub[t_pos] = "abort" -> [findings |-> <<>>, aborted |-> TRUE]
                 [] ub[t_pos] = "differs" -> [rest EXCEPT !.findings = found \o @]
                 [] OTHER -> rest

\* "if we have more types, check pattern in Required, default and possible values"
ValueArityFindings(types, vc) ==
    IF /\ Len(types) > 1
       /\ Col(vc, TSV_POSSIBLEVALUES) # <<>>
       /\ Len(types) # Len(split(Col(vc, TSV_POSSIBLEVALUES), ";"))
    THEN << Finding("Wrong # of types vs. # of possible values", Col(vc, TSV_KEYNAME), <<>>) >>
    ELSE <<>>

\* Inheritable must be TRUE or FALSE
InheritableFindings(vc) ==
    IF Col(vc, TSV_INHERITABLE) # str_TRUE /\ Col(vc, TSV_INHERITABLE) # str_FALSE
    THEN << Finding("file_name::key", Col(vc, TSV_KEYNAME), <<>>) >>
    ELSE <<>>

\* one turn of check()'s loop over the data rows: row data_list[i] (from 0)
CheckRow ==
    /\ pc = "rows"
    /\ i < Len(data_list)
    /\ LET vc == data_list[i + 1]
           key == Col(vc, TSV_KEYNAME)
           dup == DuplicateKeyCheck(processed, key)
           types == split(Col(vc, TSV_TYPE), ";")
           links == split(Col(vc, TSV_LINK), ";")
           before == dup.findings \o LinkFindings(vc, types, links, folder)
                        \o TypeFindings(types, key)
       IN  /\ processed' = dup.processed
           /\ \E ub \in [ReadsPastEnd(types, vc) -> OutOfRangeOutcomes] :
                LET pv == PossibleValueLoop(types, vc, ub, 1)
                IN  IF pv.aborted
                    THEN /\ report_stream' = report_stream \o before \o pv.findings
                         /\ pc' = "crashed"
                         /\ UNCHANGED i
                    ELSE /\ report_stream' = report_stream \o before \o pv.findings
                                \o ValueArityFindings(types, vc)
                                \o InheritableFindings(vc)
                         /\ i' = i + 1
                         /\ UNCHANGED pc
    /\ UNCHANGED << lines, folder, pos, data_list, load_ret, check_ret >>
    /\ UNCHANGED << xml_vars, walk_vars, sdk_vars, loop_vars, obj_vars, main_vars >>

\* the loop is over: check() returns true
CheckReturn ==
    /\ pc = "rows"
    /\ i >= Len(data_list)
    /\ check_ret' = "true"
    /\ pc' = "done"
    /\ UNCHANGED << lines, folder, pos, data_list, load_ret, report_stream, i, processed >>
    /\ UNCHANGED << xml_vars, walk_vars, sdk_vars, loop_vars, obj_vars, main_vars >>

Next ==
    \/ LoadLine
    \/ LoadReturn
    \/ CheckHeader
    \/ CheckRow
    \/ CheckReturn

Spec == Init /\ [][Next]_vars

\* ------------------------------------------------------------------------
\* What the claims speak of
\* ------------------------------------------------------------------------

\* the data rows of data_list (positions from 1; the header is row 1)
DataRows == 2..Len(data_list)

\* the data rows check() has reached: the completed ones and, when an
\* out-of-range read ended the program, the row it ended in
Started == IF pc = "crashed" THEN 2..(i + 1) ELSE 2..i

Key(r) == Col(data_list[r], TSV_KEYNAME)
TypeOf(r) == Col(data_list[r], TSV_TYPE)
LinkOf(r) == Col(data_list[r], TSV_LINK)
PossibleOf(r) == Col(data_list[r], TSV_POSSIBLEVALUES)
DefaultOf(r) == Col(data_list[r], TSV_DEFAULTVALUE)
IndirectOf(r) == Col(data_list[r], TSV_INDIRECTREF)

Keys == { Key(r) : r \in DataRows }

\* the number of separator-delimited segments of a field
SegCount(s, sep) == 1 + Cardinality({ p \in DOMAIN s : s[p] = sep })

\* the complex type tags
ComplexTags == { str_ARRAY, str_DICTIONARY, str_STREAM, str_NAME_TREE, str_NUMBER_TREE }

\* the number of lines of the report with this message and key (and text)
CountKind(kind, key) ==
    Cardinality({ n \in DOMAIN report_stream :
        report_stream[n].kind = kind /\ report_stream[n].key = key })

Count(kind, key, arg) ==
    Cardinality({ n \in DOMAIN report_stream : report_stream[n] = Finding(kind, key, arg) })

\* the texts quoted by the report lines with this message
Quoted(kind) ==
    { report_stream[n].arg : n \in { m \in DOMAIN report_stream : report_stream[m].kind = kind } }

\* the link names of a segment: the text inside its enclosing brackets, cut at ','
NamesIn(seg) == IF Len(seg) >= 2 THEN split(SubSeq(seg, 2, Len(seg) - 1), ",") ELSE <<>>

\* the link segments of a row; none when the Link field is empty
LinkSegments(r) == IF LinkOf(r) = <<>> THEN <<>> ELSE split(LinkOf(r), ";")

\* the type tokens of a row
TypeTokens(r) == split(TypeOf(r), ";")

\* every link name the rows write
AllLinkNames ==
    UNION { LET segs == LinkSegments(r)
            IN  UNION { LET names == NamesIn(segs[p])
                        IN  { names[q] : q \in DOMAIN names } : p \in DOMAIN segs }
            : r \in DataRows }

\* every type token the rows write
AllTypeTokens ==
    UNION { LET toks == TypeTokens(r) IN { toks[p] : p \in DOMAIN toks } : r \in DataRows }

\* ---- duplicate keys ----

\* the rows among rs that repeat the key of an earlier data row
Repeats(rs, k) == { r \in rs : Key(r) = k /\ \E e \in 2..(r - 1) : Key(e) = k }

DuplicatesReported(rs) ==
    \A k \in Keys : CountKind("Duplicate keys in", k) = Cardinality(Repeats(rs, k))

\* C1: check() writes one duplicate-key line naming the key for every data
\* row it has reached whose key an earlier data row already has, and none
\* for any other row: an object whose keys are all distinct gets none.
C1_DuplicateKey == DuplicatesReported(Started)

\* check() has returned true after reporting a repeated key
C1_Witness ==
    /\ check_ret = "true"
    /\ \E k \in Keys : CountKind("Duplicate keys in", k) = 1 /\ Repeats(DataRows, k) # {}

\* ---- type/link arity ----

LinkArityRows(rs, k) ==
    { r \in rs : /\ Key(r) = k
                 /\ LinkOf(r) # <<>>
                 /\ SegCount(LinkOf(r), ";") # SegCount(TypeOf(r), ";") }

LinkArityReported(rs) ==
    \A k \in Keys :
        CountKind("Wrong # of types vs. # of links", k) = Cardinality(LinkArityRows(rs, k))

\* C2: for every data row reached, check() writes the types-versus-links
\* arity line exactly when the Link field is not empty and its number of
\* ';'-separated segments differs from that of the Type field.
C2_LinkArity == LinkArityReported(Started)

\* check() has returned true after reporting a row with 2 types and 1 link
C2_Witness ==
    /\ check_ret = "true"
    /\ \E r \in DataRows :
         /\ SegCount(TypeOf(r), ";") = 2
         /\ LinkOf(r) # <<>>
         /\ SegCount(LinkOf(r), ";") = 1
         /\ CountKind("Wrong # of types vs. # of links", Key(r)) >= 1

\* ---- dangling links ----

\* C3 as stated: every non-empty link name inside any link segment of a row
\* reached is reported as not existing exactly when no grammar object of
\* that name exists.
C3_EveryLinkName ==
    \A r \in Started : \A p \in DOMAIN LinkSegments(r) :
        \A q \in DOMAIN NamesIn(LinkSegments(r)[p]) :
            LET lnk == NamesIn(LinkSegments(r)[p])[q]
            IN  lnk # <<>> =>
                  ((Count("Link doesn't exist", Key(r), lnk) >= 1) <=> (lnk \notin folder))

\* the places (row, segment, name) among rs where a segment of the bracketed
\* form names lnk under key k
PatternedNames(rs, k, lnk) ==
    UNION { LET segs == LinkSegments(r)
            IN  UNION { LET names == NamesIn(segs[p])
                        IN  { <<r, p, q>> : q \in { n \in DOMAIN names : names[n] = lnk } }
                        : p \in { s \in DOMAIN segs : regex_match(segs[s]) } }
            : r \in { x \in rs : Key(x) = k } }

DanglingReported(rs) ==
    \A k \in Keys : \A lnk \in AllLinkNames \cup Quoted("Link doesn't exist") :
        Count("Link doesn't exist", k, lnk) =
            IF lnk # <<>> /\ lnk \notin folder
            THEN Cardinality(PatternedNames(rs, k, lnk))
            ELSE 0

\* C3 amended: for every link segment of the bracketed form [name,name,...]
\* of a row reached and every non-empty name in it, check() writes one
\* missing-link line exactly when no grammar object of that name exists;
\* names that resolve, and the names of a segment that is not of that form,
\* get no such line.
C3_DanglingLink == DanglingReported(Started)

\* check() has returned true after reporting a name that does not resolve,
\* in a segment that also holds a name that does
C3_Witness ==
    /\ check_ret = "true"
    /\ \E r \in DataRows :
         /\ LinkOf(r) = in_Obj_Nope
         /\ Count("Link doesn't exist", Key(r), obj_Nope) >= 1
         /\ Count("Link doesn't exist", Key(r), obj_Obj) = 0

\* ---- unlinked complex types ----

TypeAt(r, p) == TypeTokens(r)[p]

\* the variant at position p of row r has no non-empty link
NoLinkAt(r, p) ==
    \/ p \notin DOMAIN LinkSegments(r)
    \/ \A q \in DOMAIN NamesIn(LinkSegments(r)[p]) : NamesIn(LinkSegments(r)[p])[q] = <<>>

\* C4 as stated: every complex type variant of a row reached that has no
\* non-empty link is reported as not linked, whether its Link segment is
\* "[]" or the Link field is absent.
C4_EveryUnlinked ==
    \A r \in Started : \A p \in DOMAIN TypeTokens(r) :
        (TypeAt(r, p) \in ComplexTags /\ NoLinkAt(r, p))
            => Count("Type not linked in", Key(r), TypeAt(r, p)) >= 1

\* the places (row, position) among rs where a complex type t of key k stands
\* against the Link segment "[]"
EmptyLinked(rs, k, t) ==
    UNION { LET toks == TypeTokens(r)
                segs == LinkSegments(r)
            IN  { <<r, p>> : p \in { n \in DOMAIN toks :
                                       /\ toks[n] = t
                                       /\ t \in ComplexTags
                                       /\ n \in DOMAIN segs
                                       /\ segs[n] = str_EmptySet } }
            : r \in { x \in rs : Key(x) = k } }

UnlinkedReported(rs) ==
    \A k \in Keys : \A t \in AllTypeTokens \cup Quoted("Type not linked in") :
        Count("Type not linked in", k, t) = Cardinality(EmptyLinked(rs, k, t))

\* C4 amended: for every row reached whose Link field is not empty and every
\* complex type variant, check() writes one not-linked line exactly when
\* the Link segment at the variant's position is "[]"; a row whose Link
\* field is absent gets no such line.
C4_Unlinked == UnlinkedReported(Started)

\* check() has returned true after reporting an ARRAY whose link is "[]"
C4_Witness ==
    /\ check_ret = "true"
    /\ \E r \in DataRows :
         /\ TypeOf(r) = str_ARRAY
         /\ LinkOf(r) = str_EmptySet
         /\ Count("Type not linked in", Key(r), str_ARRAY) >= 1

\* ---- unknown types ----

UnknownTokens(rs, k, t) ==
    UNION { LET toks == TypeTokens(r)
            IN  { <<r, p>> : p \in { n \in DOMAIN toks : toks[n] = t /\ t \notin basic_types } }
            : r \in { x \in rs : Key(x) = k } }

UnknownReported(rs) ==
    \A k \in Keys : \A t \in AllTypeTokens \cup Quoted("Wrong type") :
        Count("Wrong type", k, t) = Cardinality(UnknownTokens(rs, k, t))

\* C5: for every row reached, check() writes one wrong-type line for each
\* ';'-separated type token that is not in the type vocabulary, and none
\* for a token that is in it.
C5_UnknownType == UnknownReported(Started)

\* check() has returned true after reporting the second token of a type list
\* whose first token is in the vocabulary
C5_Witness ==
    /\ check_ret = "true"
    /\ \E r \in DataRows :
         /\ SegCount(TypeOf(r), ";") = 2
         /\ TypeAt(r, 1) \in basic_types
         /\ TypeAt(r, 2) \notin basic_types
         /\ Count("Wrong type", Key(r), TypeAt(r, 2)) >= 1
         /\ Count("Wrong type", Key(r), TypeAt(r, 1)) = 0

\* ---- possible values of complex types ----

\* the places (row, position) among rs where a complex type of key k stands
\* against a possible-values segment that is not "[]"
ValuedComplex(rs, k) ==
    UNION { LET toks == TypeTokens(r)
                vals == split(PossibleOf(r), ";")
            IN  { <<r, p>> : p \in { n \in DOMAIN toks :
                                       /\ toks[n] \in ComplexTags
                                       /\ PossibleOf(r) # <<>>
                                       /\ n \in DOMAIN vals
                                       /\ vals[n] # str_EmptySet } }
            : r \in { x \in rs : Key(x) = k } }

\* C6: for every row reached and every complex type variant at position i,
\* check() writes the possible-value line exactly when the PossibleValues
\* field is not empty and its segment at position i is not "[]".
C6_IllegalPossibleValue ==
    \A k \in Keys :
        CountKind("Complex type does have possible value defined", k)
            = Cardinality(ValuedComplex(Started, k))

\* ---- arity of the per-variant lists ----

\* the per-variant lists of a row that are present: default values, possible
\* values, and the indirect reference when it is given per variant
VariantLists(r) ==
    { f \in { DefaultOf(r), PossibleOf(r) } : f # <<>> }
        \cup { f \in { IndirectOf(r) } : f # <<>> /\ f[1] = "[" }

\* the (row, list) pairs of key k whose list has another arity than the types
MisalignedLists(rs, k) ==
    { x \in rs \X UNION { VariantLists(r) : r \in rs } :
        /\ Key(x[1]) = k
        /\ SegCount(TypeOf(x[1]), ";") > 1
        /\ x[2] \in VariantLists(x[1])
        /\ SegCount(x[2], ";") # SegCount(TypeOf(x[1]), ";") }

\* the arity lines of the report about the value lists of key k
ValueArityLines(k) ==
    { n \in DOMAIN report_stream :
        /\ report_stream[n].key = k
        /\ report_stream[n].kind \in
             { "Wrong # of types vs. # of possible values",
               "Wrong # of types vs. # of default values",
               "Wrong # of types vs. # of indirect references" } }

\* C7: when check() has returned, every row with more than one type variant
\* has an arity line for each per-variant list that is present and whose
\* number of ';'-separated segments differs from the number of variants.
C7_ValueArity ==
    check_ret = "true" =>
        \A k \in Keys :
            Cardinality(ValueArityLines(k)) >= Cardinality(MisalignedLists(DataRows, k))

\* ---- accumulation ----

\* the header was accepted and check() takes no further step
Stopped == (pc = "done" /\ check_ret = "true") \/ pc = "crashed"

InheritableReported(rs) ==
    \A k \in Keys :
        CountKind("file_name::key", k) =
            Cardinality({ r \in rs : /\ Key(r) = k
                                     /\ Col(data_list[r], TSV_INHERITABLE) # str_TRUE
                                     /\ Col(data_list[r], TSV_INHERITABLE) # str_FALSE })

PossibleArityReported(rs) ==
    \A k \in Keys :
        CountKind("Wrong # of types vs. # of possible values", k) =
            Cardinality({ r \in rs : /\ Key(r) = k
                                     /\ SegCount(TypeOf(r), ";") > 1
                                     /\ PossibleOf(r) # <<>>
                                     /\ SegCount(PossibleOf(r), ";") # SegCount(TypeOf(r), ";") })

\* C8: once check() has stopped on a grammar object whose header it accepted,
\* the report holds the findings of every check on every data row: nothing
\* that happened at one row or in one check has kept the later checks and
\* the later rows from reporting.
C8_AllFindings ==
    Stopped =>
        /\ DuplicatesReported(DataRows)
        /\ LinkArityReported(DataRows)
        /\ DanglingReported(DataRows)
        /\ UnlinkedReported(DataRows)
        /\ UnknownReported(DataRows)
        /\ PossibleArityReported(DataRows)
        /\ InheritableReported(DataRows)

\* ---- the header row ----

\* the names check() compares the columns of the header row with
RecognizedNames ==
    << str_Key, str_TYPE, str_SinceVersion, str_DeprecatedIn, str_REQUIRED,
       str_INDIRECTREFERENCE, str_INHERITABLE, str_DefaultValue, str_PossibleValues,
       str_SpecialCase, str_Link >>

\* the header row as the file writes it
RawHeader == SplitLine(lines[1])

\* load() returned true and check() went past the header
Accepted == pc \in { "rows", "crashed" } \/ check_ret = "true"

\* load() or check() returned false
Failed == load_ret = "false" \/ check_ret = "false"

FoldedColumns == { TSV_TYPE + 1, TSV_REQUIRED + 1, TSV_INDIRECTREF + 1, TSV_INHERITABLE + 1 }

\* the same text but for the case of its letters
SameButCase(a, b) ==
    /\ Len(a) = Len(b)
    /\ \A p \in DOMAIN a :
         \/ a[p] = b[p]
         \/ \E n \in DOMAIN LowerCase : { a[p], b[p] } = { LowerCase[n], UpperCase[n] }

HeaderRecognized ==
    /\ lines # <<>>
    /\ LET hdr == RawHeader
       IN  /\ Len(hdr) >= Len(RecognizedNames)
           /\ \A c \in DOMAIN RecognizedNames :
                IF c \in FoldedColumns
                THEN SameButCase(hdr[c], RecognizedNames[c])
                ELSE hdr[c] = RecognizedNames[c]

IsPredicate(s) == Len(s) >= 3 /\ SubSeq(s, 1, 3) = << "f", "n", ":" >>

\* C10: in every stored row the Type, Required, IndirectReference and
\* Inheritable fields are the source's fields in upper case, except that a
\* field holding a predicate expression is stored as the source wrote it.
C10_CaseFolding ==
    \A r \in DOMAIN data_list : \A c \in FoldedColumns :
        LET raw == SplitLine(lines[r])[c]
        IN  data_list[r][c] = IF IsPredicate(raw) THEN raw ELSE transform_toupper(raw)

\* ========================================================================
\* XMLCreator (gcxml): the reduction of one TSV grammar file to a PDF version
\* ========================================================================

\* the most data rows of a TSV file given to createXML
MaxXmlRows == 2

\* the most ','-separated segments of a generated Links or PossibleValues list
MaxSegments == 3

x_fn == <<"f", "n", ":">>
x_SinceVersionOpen == <<"f", "n", ":", "S", "i", "n", "c", "e", "V", "e", "r", "s", "i", "o", "n", "(">>
x_IsRequiredOpen == <<"f", "n", ":", "I", "s", "R", "e", "q", "u", "i", "r", "e", "d", "(", "f", "n", ":", "S", "i", "n", "c", "e", "V", "e", "r", "s", "i", "o", "n", "(">>
x_IsRequiredClose == <<")", ")">>
x_array == <<"a", "r", "r", "a", "y">>
x_dictionary == <<"d", "i", "c", "t", "i", "o", "n", "a", "r", "y">>
x_stream == <<"s", "t", "r", "e", "a", "m">>
x_number_tree == <<"n", "u", "m", "b", "e", "r", "-", "t", "r", "e", "e">>
x_name_tree == <<"n", "a", "m", "e", "-", "t", "r", "e", "e">>

\* ------------------------------------------------------------------------
\* java.lang.String
\* ------------------------------------------------------------------------

tolower(c) ==
    IF \E n \in DOMAIN UpperCase : UpperCase[n] = c
    THEN LowerCase[CHOOSE n \in DOMAIN UpperCase : UpperCase[n] = c]
    ELSE c

toLowerCase(s) == [p \in 1..Len(s) |-> tolower(s[p])]

isBlank(s) == \A p \in DOMAIN s : s[p] = " "

startsWith(s, prefix) == Len(s) >= Len(prefix) /\ SubSeq(s, 1, Len(prefix)) = prefix

\* s.indexOf(c): positions counted from 0, -1 when c does not occur
indexOf(s, c) == find(s, c, 1) - 1

\* s.substring(begin, end) throws unless 0 <= begin <= end <= length
substringThrows(s, begin, end) == begin < 0 \/ begin > end \/ end > Len(s)

substring(s, begin, end) == SubSeq(s, begin + 1, end)

\* value.replace("[", "").replace("]", "")
RECURSIVE replaceBrackets(_)
replaceBrackets(s) ==
    IF s = <<>> THEN <<>>
    ELSE (IF Head(s) \in { "[", "]" } THEN <<>> ELSE << Head(s) >>) \o replaceBrackets(Tail(s))

RECURSIVE DropTrailingEmpty(_)
DropTrailingEmpty(ss) ==
    IF ss # <<>> /\ ss[Len(ss)] = <<>>
    THEN DropTrailingEmpty(SubSeq(ss, 1, Len(ss) - 1))
    ELSE ss

\* s.split(sep): the empty string gives one empty word, otherwise trailing
\* empty words are removed
java_split(s, sep) ==
    IF s = <<>> THEN << <<>> >> ELSE DropTrailingEmpty(SplitFrom(s, sep, 1))

\* Float.parseFloat of a version "x.y", in tenths
DigitValue(c) == CHOOSE n \in 0..9 : ToString(n) = c

parseFloat(s) == DigitValue(s[1]) * 10 + DigitValue(s[3])

\* the words of a list joined by a separator; no word gives the empty string
RECURSIVE JoinWith(_, _)
JoinWith(words, sep) ==
    IF words = <<>> THEN <<>>
    ELSE IF Len(words) = 1 THEN words[1]
    ELSE words[1] \o << sep >> \o JoinWith(Tail(words), sep)

\* ------------------------------------------------------------------------
\* TSVHandler: the predicate lexer and the reductions of single fields
\* ------------------------------------------------------------------------

\* the position (from 0) of the ')' that closes the first '(' of a; -1 when
\* there is none
RECURSIVE CloseFrom(_, _, _)
CloseFrom(a, p, depth) ==
    IF p > Len(a) THEN -1
    ELSE IF a[p] = "(" THEN CloseFrom(a, p + 1, depth + 1)
    ELSE IF a[p] = ")"
         THEN (IF depth <= 1 THEN p - 1 ELSE CloseFrom(a, p + 1, depth - 1))
    ELSE CloseFrom(a, p + 1, depth)

indexOfOuterCloseBracket(a) == CloseFrom(a, 1, 0)

\* the top-level segments of a ','-separated list: a segment that begins
\* with "fn:" reaches to its balanced ')', or to the end of the string when
\* it has none; the empty string has no segment
RECURSIVE Segments(_)
Segments(a) ==
    IF a = <<>> THEN <<>>
    ELSE LET j == indexOfOuterCloseBracket(a)
             stop == IF startsWith(a, x_fn)
                     THEN (IF j = -1 THEN 0 ELSE find(a, ",", j + 2))
                     ELSE find(a, ",", 1)
         IN  IF stop = 0 THEN << a >>
             ELSE << SubSeq(a, 1, stop - 1) >> \o Segments(SubSeq(a, stop + 1, Len(a)))

\* fn:SinceVersion(x.y,inner)
IsSinceVersion(s) ==
    /\ startsWith(s, x_SinceVersionOpen)
    /\ Len(s) >= Len(x_SinceVersionOpen) + 5
    /\ s[Len(x_SinceVersionOpen) + 4] = ","
    /\ s[Len(s)] = ")"

SinceVersionOf(s) ==
    parseFloat(SubSeq(s, Len(x_SinceVersionOpen) + 1, Len(x_SinceVersionOpen) + 3))

SinceVersionInner(s) == SubSeq(s, Len(x_SinceVersionOpen) + 5, Len(s) - 1)

\* a variant or list element that does not exist at version ver
IntroducedLater(s, ver) == IsSinceVersion(s) /\ SinceVersionOf(s) > ver

\* a variant or list element without its version predicate
Unwrapped(s) == IF IsSinceVersion(s) THEN SinceVersionInner(s) ELSE s

\* the words of a list at the positions that are not removed, in order
RECURSIVE Without(_, _, _)
Without(words, removed, p) ==
    IF p > Len(words) THEN <<>>
    ELSE (IF p \in removed THEN <<>> ELSE << words[p] >>) \o Without(words, removed, p + 1)

\* TSVHandler.reduceTypesForVersion: the TypeListModifier of a Type field
reduceTypesForVersion(types, ver) ==
    LET toks == split(types, ";")
        removed == { p \in DOMAIN toks : IntroducedLater(toks[p], ver) }
    IN  [ original |-> types,
          removed |-> removed,
          reduced |-> JoinWith(Without([p \in DOMAIN toks |-> Unwrapped(toks[p])],
                                       removed, 1), ";") ]

\* TypeListModifier.somethingReduced
somethingReduced(m) == m.reduced # m.original

\* TypeListModifier.getReducedTypes
getReducedTypes(m) == m.reduced

\* TypeListModifier.reduceCorresponding: a per-variant list loses the
\* positions the type list lost; a blank field, a boolean constant and a
\* predicate are not per-variant lists
reduceCorresponding(m, field) ==
    IF isBlank(field) \/ field = str_TRUE \/ field = str_FALSE \/ startsWith(field, x_fn)
    THEN field
    ELSE JoinWith(Without(split(field, ";"), m.removed, 1), ";")

\* TSVHandler.reduceRequiredForVersion: fn:IsRequired(fn:SinceVersion(x.y))
\* resolves to a boolean literal, anything else is left as it is
IsVersionRequired(s) ==
    /\ startsWith(s, x_IsRequiredOpen)
    /\ Len(s) = Len(x_IsRequiredOpen) + 5
    /\ SubSeq(s, Len(s) - 1, Len(s)) = x_IsRequiredClose

reduceRequiredForVersion(required, ver) ==
    IF IsVersionRequired(required)
    THEN (IF parseFloat(SubSeq(required, Len(x_IsRequiredOpen) + 1,
                               Len(x_IsRequiredOpen) + 3)) <= ver
          THEN str_TRUE ELSE str_FALSE)
    ELSE required

\* one segment "[a,b,...]" of a Links or PossibleValues field without the
\* elements introduced after ver and without the version predicates
ReducedList(seg, ver) ==
    IF Len(seg) >= 2 /\ seg[1] = "[" /\ seg[Len(seg)] = "]"
    THEN LET elems == Segments(SubSeq(seg, 2, Len(seg) - 1))
             later == { p \in DOMAIN elems : IntroducedLater(elems[p], ver) }
         IN  IF \E p \in DOMAIN elems : IsSinceVersion(elems[p])
             THEN << "[" >>
                  \o JoinWith(Without([p \in DOMAIN elems |-> Unwrapped(elems[p])],
                                      later, 1), ",")
                  \o << "]" >>
             ELSE seg
    ELSE seg

\* TSVHandler.reduceComplexForVersion: a function of the field and the
\* version alone; the number of ';'-separated segments stays as it is
reduceComplexForVersion(field, ver) ==
    IF isBlank(field) THEN field
    ELSE LET segs == split(field, ";")
         IN  JoinWith([p \in DOMAIN segs |-> ReducedList(segs[p], ver)], ";")

\* ------------------------------------------------------------------------
\* XMLCreator: the nodes of one ENTRY
\* ------------------------------------------------------------------------

\* createNodeValue(t, value); from and variant tell which loop of nodeValues
\* appended the element and for which type variant (from 1)
createNodeValue(t, value, from, variant) ==
    [ type |-> t, text |-> replaceBrackets(value), from |-> from, variant |-> variant ]

\* the while loop of nodeValues over a bracket-stripped Links segment: the
\* texts handed to createNodeValue, in order
\* one turn of either loop on a string that starts with "fn:": the
\* predicate up to its closing bracket is the value, the rest without the
\* following ',' is what is left
PredicateTurn(a) ==
    LET j == indexOfOuterCloseBracket(a)
        a1 == IF j + 2 < Len(a) THEN substring(a, j + 2, Len(a)) ELSE <<>>
    IN  [ s |-> substring(a, 0, j + 1),
          a |-> IF ~isBlank(a1) /\ a1[1] = "," THEN substring(a1, 1, Len(a1)) ELSE a1 ]

\* a slip: what is left starts at the closing bracket's index as found
LinksTurn_FromBracket(a) ==
    IF startsWith(a, x_fn)
    THEN [ s |-> substring(a, 0, indexOfOuterCloseBracket(a) + 1),
           a |-> substring(a, indexOfOuterCloseBracket(a) + 1, Len(a)) ]
    ELSE IF indexOf(a, ",") > 0
    THEN [ s |-> substring(a, 0, indexOf(a, ",")),
           a |-> substring(a, indexOf(a, ",") + 1, Len(a)) ]
    ELSE [ s |-> a, a |-> <<>> ]

\* one turn of the loop over a Links segment: the value appended and what is
\* left of the string
LinksTurn(a) ==
    IF startsWith(a, x_fn) THEN PredicateTurn(a)
    ELSE IF indexOf(a, ",") > 0
    THEN [ s |-> substring(a, 0, indexOf(a, ",")),
           a |-> substring(a, indexOf(a, ",") + 1, Len(a)) ]
    ELSE [ s |-> a, a |-> <<>> ]

RECURSIVE LinksLoop(_)
LinksLoop(a) ==
    IF isBlank(a) THEN <<>>
    ELSE << LinksTurn(a).s >> \o LinksLoop(LinksTurn(a).a)

\* the while loop of nodeValues over a bracket-stripped PossibleValues segment
\* a slip: the list is cut at every ',', those inside a predicate included
RECURSIVE PossibleValuesLoop_EveryComma(_)
PossibleValuesLoop_EveryComma(a) ==
    IF isBlank(a) THEN <<>>
    ELSE IF indexOf(a, ",") >= 0
    THEN << substring(a, 0, indexOf(a, ",")) >>
         \o PossibleValuesLoop_EveryComma(substring(a, indexOf(a, ",") + 1, Len(a)))
    ELSE << a >>

\* one turn of the loop over a PossibleValues segment
PossibleValuesTurn(a) ==
    IF startsWith(a, x_fn) THEN PredicateTurn(a)
    ELSE IF indexOf(a, ",") >= 0
    THEN [ s |-> substring(a, 0, indexOf(a, ",")),
           a |-> substring(a, indexOf(a, ",") + 1, Len(a)) ]
    ELSE [ s |-> a, a |-> <<>> ]

RECURSIVE PossibleValuesLoop(_)
PossibleValuesLoop(a) ==
    IF isBlank(a) THEN <<>>
    ELSE << PossibleValuesTurn(a).s >> \o PossibleValuesLoop(PossibleValuesTurn(a).a)

\* "Is it an Arlington type needing a Link?"
NeedsLink(t) ==
    \/ t = x_array
    \/ t = x_dictionary
    \/ t = x_stream
    \/ t = x_number_tree
    \/ t = x_name_tree

Thrown == [ values |-> <<>>, exception |-> TRUE ]

Returned(values) == [ values |-> values, exception |-> FALSE ]

\* the VALUE elements of a type that needs a link (variant idx, counted from 1)
LinkedValues(t, idx, arr_links) ==
    IF idx > Len(arr_links) \/ substringThrows(arr_links[idx], 1, Len(arr_links[idx]) - 1)
    THEN Thrown
    ELSE LET texts == LinksLoop(substring(arr_links[idx], 1, Len(arr_links[idx]) - 1))
         IN  Returned([n \in DOMAIN texts |-> createNodeValue(t, texts[n], "links", idx)])

\* the VALUE elements of a basic type from PossibleValues; pos_values is
\* << >> for null
\* a slip: nothing is appended when the row has no PossibleValues
PossibleValues_NoPlaceholder(t, idx, has_pos_values, pos_values) ==
    IF ~has_pos_values
    THEN Returned(<<>>)
    ELSE IF idx > Len(pos_values) \/ substringThrows(pos_values[idx], 1, Len(pos_values[idx]) - 1)
    THEN Thrown
    ELSE LET texts == PossibleValuesLoop(substring(pos_values[idx], 1, Len(pos_values[idx]) - 1))
         IN  Returned([n \in DOMAIN texts |-> createNodeValue(t, texts[n], "possible", idx)])

PossibleValues(t, idx, has_pos_values, pos_values) ==
    IF ~has_pos_values
    THEN Returned(<< createNodeValue(t, <<>>, "none", idx) >>)
    ELSE IF idx > Len(pos_values) \/ substringThrows(pos_values[idx], 1, Len(pos_values[idx]) - 1)
    THEN Thrown
    ELSE LET texts == PossibleValuesLoop(substring(pos_values[idx], 1, Len(pos_values[idx]) - 1))
         IN  Returned([n \in DOMAIN texts |-> createNodeValue(t, texts[n], "possible", idx)])

\* the VALUE element of a basic type from DefaultValue
DefaultValues(t, idx, has_dft_values, dft_values) ==
    IF ~has_dft_values THEN Returned(<<>>)
    ELSE IF idx > Len(dft_values) \/ dft_values[idx] = <<>> THEN Thrown
    ELSE IF dft_values[idx][1] = "[" /\ substringThrows(dft_values[idx], 1, Len(dft_values[idx]) - 1)
    THEN Thrown
    ELSE LET dft == IF dft_values[idx][1] = "["
                    THEN substring(dft_values[idx], 1, Len(dft_values[idx]) - 1)
                    ELSE dft_values[idx]
         IN  IF Len(dft) > 0
             THEN Returned(<< createNodeValue(t, dft, "default", idx) >>)
             ELSE Returned(<<>>)

\* one turn of the loop over the types
TypeValues(types, idx, arr_links, has_pos_values, pos_values, has_dft_values, dft_values) ==
    IF NeedsLink(types[idx])
    THEN LinkedValues(types[idx], idx, arr_links)
    ELSE LET possible == PossibleValues(types[idx], idx, has_pos_values, pos_values)
             dft == DefaultValues(types[idx], idx, has_dft_values, dft_values)
         IN  IF possible.exception \/ dft.exception THEN Thrown
             ELSE Returned(possible.values \o dft.values)

RECURSIVE TypesLoop(_, _, _, _, _, _, _)
TypesLoop(types, idx, arr_links, has_pos_values, pos_values, has_dft_values, dft_values) ==
    IF idx > Len(types) THEN Returned(<<>>)
    ELSE LET here == TypeValues(types, idx, arr_links, has_pos_values, pos_values,
                                has_dft_values, dft_values)
             rest == TypesLoop(types, idx + 1, arr_links, has_pos_values, pos_values,
                               has_dft_values, dft_values)
         IN  IF here.exception \/ rest.exception THEN Thrown
             ELSE Returned(here.values \o rest.values)

\* nodeValues(type, default_value, possible_values, links); the asserts are
\* not evaluated (the program is run without -ea)
nodeValues(type, default_value, possible_values, links) ==
    TypesLoop(java_split(type, ";"), 1, java_split(links, ";"),
              ~isBlank(possible_values),
              IF isBlank(possible_values) THEN <<>> ELSE java_split(possible_values, ";"),
              ~isBlank(default_value),
              IF isBlank(default_value) THEN <<>> ELSE java_split(default_value, ";"))

\* nodeRequired
nodeRequired(col_value) ==
    IF ~startsWith(col_value, x_fn) THEN toLowerCase(col_value) ELSE col_value

\* nodeIndirectReference: the text nodes of the element
nodeIndirectReference(col_value) ==
    IF startsWith(col_value, x_fn) THEN [ texts |-> << col_value >>, exception |-> FALSE ]
    ELSE IF col_value = str_TRUE \/ col_value = str_FALSE
    THEN [ texts |-> << toLowerCase(col_value) >>, exception |-> FALSE ]
    ELSE LET ir_arr == java_split(col_value, ";")
         IN  IF \E n \in DOMAIN ir_arr : substringThrows(ir_arr[n], 1, Len(ir_arr[n]) - 1)
             THEN [ texts |-> <<>>, exception |-> TRUE ]
             ELSE [ texts |-> [n \in DOMAIN ir_arr |-> toLowerCase(col_value)],
                    exception |-> FALSE ]

\* nodeInheritable
nodeInheritable(col_value) == toLowerCase(col_value)

\* nodeSpecialCase: the text nodes of the element
nodeSpecialCase(col_value) == IF ~isBlank(col_value) THEN << col_value >> ELSE <<>>

\* ------------------------------------------------------------------------
\* XMLCreator.createXML
\* ------------------------------------------------------------------------

\* a slip: the comparison is written the other way round
Kept_Reversed(current_entry_version, ver) == current_entry_version >= ver

\* a slip: only the rows introduced in the target version are kept
Kept_SameVersion(current_entry_version, ver) == current_entry_version = ver

\* "if (current_entry_version <= pdf_ver)"
Kept(current_entry_version, ver) == current_entry_version <= ver

\* column_values after the reductions of a kept row
\* a slip: the reduced PossibleValues and Links are stored in each other's
\* column
ReducedColumns_Exchanged(column_values, ver) ==
    LET types_reduced == reduceTypesForVersion(column_values[TSV_TYPE + 1], ver)
        corresponding ==
            IF somethingReduced(types_reduced)
            THEN [column_values EXCEPT
                    ![TSV_TYPE + 1] = getReducedTypes(types_reduced),
                    ![TSV_INDIRECTREF + 1] = reduceCorresponding(types_reduced, @),
                    ![TSV_DEFAULTVALUE + 1] = reduceCorresponding(types_reduced, @),
                    ![TSV_SPECIALCASE + 1] = reduceCorresponding(types_reduced, @)]
            ELSE column_values
    IN  [corresponding EXCEPT
            ![TSV_REQUIRED + 1] = reduceRequiredForVersion(@, ver),
            ![TSV_POSSIBLEVALUES + 1] = reduceComplexForVersion(column_values[TSV_LINK + 1], ver),
            ![TSV_LINK + 1] = reduceComplexForVersion(column_values[TSV_POSSIBLEVALUES + 1], ver)]

ReducedColumns(column_values, ver) ==
    LET types_reduced == reduceTypesForVersion(column_values[TSV_TYPE + 1], ver)
        corresponding ==
            IF somethingReduced(types_reduced)
            THEN [column_values EXCEPT
                    ![TSV_TYPE + 1] = getReducedTypes(types_reduced),
                    ![TSV_INDIRECTREF + 1] = reduceCorresponding(types_reduced, @),
                    ![TSV_DEFAULTVALUE + 1] = reduceCorresponding(types_reduced, @),
                    ![TSV_SPECIALCASE + 1] = reduceCorresponding(types_reduced, @)]
            ELSE column_values
    IN  [corresponding EXCEPT
            ![TSV_REQUIRED + 1] = reduceRequiredForVersion(@, ver),
            ![TSV_POSSIBLEVALUES + 1] = reduceComplexForVersion(@, ver),
            ![TSV_LINK + 1] = reduceComplexForVersion(@, ver)]

\* the ENTRY built from the reduced column_values of line row of the file
Entry(row, column_values) ==
    LET values == nodeValues(column_values[TSV_TYPE + 1], column_values[TSV_DEFAULTVALUE + 1],
                             column_values[TSV_POSSIBLEVALUES + 1], column_values[TSV_LINK + 1])
        indirect == nodeIndirectReference(column_values[TSV_INDIRECTREF + 1])
    IN  [ exception |-> values.exception \/ indirect.exception,
          entry |-> [ row |-> row,
                      column_values |-> column_values,
                      name |-> column_values[TSV_KEYNAME + 1],
                      values |-> values.values,
                      required |-> nodeRequired(column_values[TSV_REQUIRED + 1]),
                      indirect_reference |-> indirect.texts,
                      inheritable |-> nodeInheritable(column_values[TSV_INHERITABLE + 1]),
                      introduced |-> column_values[TSV_SINCEVERSION + 1],
                      deprecated |-> column_values[TSV_DEPRECATEDIN + 1],
                      special_case |-> nodeSpecialCase(column_values[TSV_SPECIALCASE + 1]) ] ]

\* the rows of one file: what the loop over the lines from line p on appends
\* to object_elem, and whether it ends in an exception
RECURSIVE RowsLoop(_, _, _)
RowsLoop(text, ver, p) ==
    IF p > Len(text) THEN [ entries |-> <<>>, exception |-> FALSE ]
    ELSE LET column_values == SplitLine(text[p])
             built == Entry(p, ReducedColumns(column_values, ver))
             rest == RowsLoop(text, ver, p + 1)
         IN  IF ~Kept(parseFloat(column_values[TSV_SINCEVERSION + 1]), ver) THEN rest
             ELSE IF built.exception THEN [ entries |-> <<>>, exception |-> TRUE ]
             ELSE [ rest EXCEPT !.entries = << built.entry >> \o @ ]

\* createXML(pdf_version) of one file: the ENTRY elements of the written XML
createXML(text, ver) == RowsLoop(text, ver, 2)

v_1_0 == <<"1", ".", "0">>
v_1_5 == <<"1", ".", "5">>
v_2_0 == <<"2", ".", "0">>
xi_name == <<"n", "a", "m", "e">>
xi_since15_name_string == <<"f", "n", ":", "S", "i", "n", "c", "e", "V", "e", "r", "s", "i", "o", "n", "(", "1", ".", "5", ",", "n", "a", "m", "e", ")", ";", "s", "t", "r", "i", "n", "g">>
xi_since15_name == <<"f", "n", ":", "S", "i", "n", "c", "e", "V", "e", "r", "s", "i", "o", "n", "(", "1", ".", "5", ",", "n", "a", "m", "e", ")">>
xi_since20_both == <<"f", "n", ":", "S", "i", "n", "c", "e", "V", "e", "r", "s", "i", "o", "n", "(", "2", ".", "0", ",", "n", "a", "m", "e", ")", ";", "f", "n", ":", "S", "i", "n", "c", "e", "V", "e", "r", "s", "i", "o", "n", "(", "2", ".", "0", ",", "s", "t", "r", "i", "n", "g", ")">>
xi_array_name == <<"a", "r", "r", "a", "y", ";", "n", "a", "m", "e">>
xi_string == <<"s", "t", "r", "i", "n", "g">>

xi_name_string == <<"n", "a", "m", "e", ";", "s", "t", "r", "i", "n", "g">>
xi_required15 == <<"f", "n", ":", "I", "s", "R", "e", "q", "u", "i", "r", "e", "d", "(", "f", "n", ":", "S", "i", "n", "c", "e", "V", "e", "r", "s", "i", "o", "n", "(", "1", ".", "5", ")", ")">>
xi_TRUE_FALSE == <<"[", "T", "R", "U", "E", "]", ";", "[", "F", "A", "L", "S", "E", "]">>
xi_a_b == <<"[", "a", "]", ";", "[", "b", "]">>
xi_x_y == <<"[", "x", "]", ";", "[", "y", "]">>
xi_Obj_New == <<"[", "O", "b", "j", ",", "f", "n", ":", "S", "i", "n", "c", "e", "V", "e", "r", "s", "i", "o", "n", "(", "1", ".", "5", ",", "N", "e", "w", ")", "]", ";", "[", "]">>
xi_Empty_a_b == <<"[", "]", ";", "[", "a", ",", "b", "]">>
xi_Empty_a == <<"[", "]", ";", "[", "a", "]">>
xi_Obj == <<"[", "O", "b", "j", "]">>
tok_a == <<"a">>
tok_Obj == <<"O", "b", "j">>
tok_F == <<"f", "n", ":", "F", "(", "x", ",", "y", ")">>
tok_G == <<"f", "n", ":", "G", "(", "h", "(", "x", ")", ",", "y", ")">>
tok_U == <<"f", "n", ":", "F", "(", "x", ",", "y">>

\* one data row of twelve columns
XmlRowOf(key, type, since, required, indirect, default, possible, link) ==
    Join(<< key, type, since, <<>>, required, indirect, str_FALSE, default,
            possible, <<>>, link, <<>> >>)

XmlRowInputs ==
    { XmlRowOf(in_K1, xi_name,                v_1_0, str_TRUE,      str_FALSE,     <<>>,   <<>>,         <<>>),
      XmlRowOf(in_K2, x_array,                v_1_5, str_FALSE,     str_TRUE,      <<>>,   <<>>,         xi_Obj),
      XmlRowOf(in_K1, xi_since15_name_string, v_1_0, str_TRUE,      xi_TRUE_FALSE, xi_a_b, xi_x_y,       in_Empty_Empty),
      XmlRowOf(in_K2, xi_since15_name,        v_1_0, str_FALSE,     str_FALSE,     <<>>,   <<>>,         <<>>),
      XmlRowOf(in_K2, xi_since20_both,        v_1_5, str_FALSE,     xi_TRUE_FALSE, <<>>,   <<>>,         <<>>),
      XmlRowOf(in_K1, xi_array_name,          v_1_0, xi_required15, str_FALSE,     <<>>,   xi_Empty_a_b, xi_Obj_New),
      XmlRowOf(in_K2, x_array,                v_1_0, str_TRUE,      str_FALSE,     <<>>,   <<>>,         str_EmptySet),
      XmlRowOf(in_K1, xi_name_string,         v_2_0, str_TRUE,      str_FALSE,     <<>>,   xi_Empty_a,   <<>>),
      XmlRowOf(in_K2, x_dictionary,           v_1_0, str_TRUE,      str_FALSE,     <<>>,   <<>>,         <<>>) }

\* the ','-separated segments lists are generated from: names, predicates
\* with ',' and nested parentheses inside, a predicate that is never closed
SegmentInputs == { tok_a, tok_Obj, tok_F, tok_G, tok_U }

SegmentLists == UNION { [1..n -> SegmentInputs] : n \in 1..MaxSegments }

\* a row whose Links list, or whose PossibleValues list, is a generated list
GeneratedRows ==
    { XmlRowOf(in_K1, x_array, v_1_0, str_TRUE, str_FALSE, <<>>, <<>>,
               << "[" >> \o JoinWith(l, ",") \o << "]" >>) : l \in SegmentLists }
    \cup
    { XmlRowOf(in_K1, xi_name, v_1_0, str_TRUE, str_FALSE, <<>>,
               << "[" >> \o JoinWith(l, ",") \o << "]" >>, <<>>) : l \in SegmentLists }

XmlRowSeqs(n) == UNION { [1..m -> XmlRowInputs] : m \in 0..n }

\* the files read: the header followed by data rows
XmlFileInputs ==
    { << GoodHeader >> \o rows : rows \in XmlRowSeqs(MaxXmlRows) }
        \cup { << GoodHeader, row >> : row \in GeneratedRows }

\* the pdf_version arguments of createXML
VersionInputs == { v_1_0, v_1_5, v_2_0 }

InitXml ==
    /\ GrammarIdle
    /\ WalkIdle
    /\ SdkIdle
    /\ LoopObjMainIdle
    /\ xml_lines \in XmlFileInputs
    /\ \E pdf_version \in VersionInputs : pdf_ver = parseFloat(pdf_version)
    /\ xml_pos = 0
    /\ object_elem = <<>>
    /\ xml_pc = "open"

\* "remove TSV header row"
XmlOpen ==
    /\ xml_pc = "open"
    /\ xml_pos' = IF Len(xml_lines) > 0 THEN 1 ELSE 0
    /\ xml_pc' = "rows"
    /\ UNCHANGED << xml_lines, pdf_ver, object_elem >>
    /\ UNCHANGED << grammar_vars, walk_vars, sdk_vars, loop_vars, obj_vars, main_vars >>

\* one turn of the loop over the rows of the TSV file; an exception of a
\* node method ends createXML in its catch block, nothing is written
XmlRow ==
    /\ xml_pc = "rows"
    /\ xml_pos < Len(xml_lines)
    /\ LET column_values == SplitLine(xml_lines[xml_pos + 1])
           current_entry_version == parseFloat(column_values[TSV_SINCEVERSION + 1])
           built == Entry(xml_pos + 1, ReducedColumns(column_values, pdf_ver))
       IN  IF Kept(current_entry_version, pdf_ver)
           THEN IF built.exception
                THEN /\ xml_pc' = "exception"
                     /\ UNCHANGED object_elem
                ELSE /\ object_elem' = Append(object_elem, built.entry)
                     /\ UNCHANGED xml_pc
           ELSE UNCHANGED << object_elem, xml_pc >>
    /\ xml_pos' = xml_pos + 1
    /\ UNCHANGED << xml_lines, pdf_ver >>
    /\ UNCHANGED << grammar_vars, walk_vars, sdk_vars, loop_vars, obj_vars, main_vars >>

\* readLine returns null: the document is written
XmlSave ==
    /\ xml_pc = "rows"
    /\ xml_pos >= Len(xml_lines)
    /\ xml_pc' = "done"
    /\ UNCHANGED << xml_lines, pdf_ver, xml_pos, object_elem >>
    /\ UNCHANGED << grammar_vars, walk_vars, sdk_vars, loop_vars, obj_vars, main_vars >>

NextXml ==
    \/ XmlOpen
    \/ XmlRow
    \/ XmlSave

SpecXml == InitXml /\ [][NextXml]_vars

\* ------------------------------------------------------------------------
\* createXML: what the claims speak of
\* ------------------------------------------------------------------------

\* the data rows of the TSV file (the header is line 1)
XmlDataRows == 2..Len(xml_lines)

\* the data rows the loop of createXML has read
XmlRead == 2..xml_pos

XmlColumn(r, c) == Col(SplitLine(xml_lines[r]), c)

\* the version a row was introduced in, in tenths
IntroducedIn(r) == parseFloat(XmlColumn(r, TSV_SINCEVERSION))

\* the rows that have an ENTRY
EntryRows == { object_elem[n].row : n \in DOMAIN object_elem }

\* the NAME texts of a sequence of ENTRY elements
EntryKeys(entries) == { entries[n].name : n \in DOMAIN entries }

\* the target versions createXML is run with, in tenths
TargetVersions == { parseFloat(pdf_version) : pdf_version \in VersionInputs }

\* ---- rows introduced after the target version ----

\* C11: every ENTRY of object_elem stands for one row the loop has read
\* whose introduced version is at most the target version, names that row's
\* key, and the entries follow the order of the rows; a row introduced after
\* the target version has no ENTRY.
C11_IntroducedByTarget ==
    /\ \A n \in DOMAIN object_elem :
         /\ object_elem[n].row \in XmlRead
         /\ IntroducedIn(object_elem[n].row) <= pdf_ver
         /\ object_elem[n].name = XmlColumn(object_elem[n].row, TSV_KEYNAME)
    /\ \A m, n \in DOMAIN object_elem : m < n => object_elem[m].row < object_elem[n].row
    /\ \A r \in XmlRead : IntroducedIn(r) > pdf_ver => r \notin EntryRows

\* the document has been written with the ENTRY of one row, another row of
\* the file having been dropped for its version
C11_Witness ==
    /\ xml_pc = "done"
    /\ \E r \in XmlDataRows : IntroducedIn(r) > pdf_ver
    /\ \E r \in XmlDataRows : IntroducedIn(r) <= pdf_ver /\ r \in EntryRows

\* ---- the keys grow with the version ----

PerVariantLists(column_values) ==
    { f \in { Col(column_values, TSV_DEFAULTVALUE), Col(column_values, TSV_POSSIBLEVALUES),
              Col(column_values, TSV_LINK) } : f # <<>> }
        \cup { f \in { Col(column_values, TSV_INDIRECTREF) } : f # <<>> /\ f[1] = "[" }

\* every per-variant list has as many segments as the type list
Aligned(column_values) ==
    \A f \in PerVariantLists(column_values) :
        SegCount(f, ";") = SegCount(Col(column_values, TSV_TYPE), ";")

\* C13: for every row of the file whose per-variant lists are aligned with
\* its type list, the per-variant lists of the reduced row the ENTRY is built
\* from are aligned with the reduced type list.
C13_Alignment ==
    \A n \in DOMAIN object_elem :
        Aligned(SplitLine(xml_lines[object_elem[n].row])) => Aligned(object_elem[n].column_values)

\* ---- idempotence ----

\* the reduced grammar object as a TSV file: the header and the reduced rows
ReducedFile(entries) ==
    << GoodHeader >> \o [n \in DOMAIN entries |-> JoinWith(entries[n].column_values, delimeter)]

\* an ENTRY without the number of the line it was read from
Content(entry) == [ f \in (DOMAIN entry) \ { "row" } |-> entry[f] ]

\* C14: when createXML has written the document, createXML run at the same
\* target version on the reduced rows writes the same ENTRY elements: the
\* same rows in the same order, with the same type variants, per-variant
\* lists and nodes.
C14_Idempotent ==
    xml_pc = "done" =>
        LET again == createXML(ReducedFile(object_elem), pdf_ver)
        IN  /\ ~again.exception
            /\ Len(again.entries) = Len(object_elem)
            /\ \A n \in DOMAIN object_elem :
                 Content(again.entries[n]) = Content(object_elem[n])

\* the document has been written with an ENTRY of a row that lost a type
\* variant, and with that the positions of its per-variant lists
C14_Witness ==
    /\ xml_pc = "done"
    /\ \E n \in DOMAIN object_elem :
         LET source == SplitLine(xml_lines[object_elem[n].row])
             reduced == object_elem[n].column_values
         IN  /\ SegCount(Col(source, TSV_TYPE), ";") = 2
             /\ Col(reduced, TSV_TYPE) = xi_string
             /\ Col(reduced, TSV_DEFAULTVALUE) # Col(source, TSV_DEFAULTVALUE)

\* ---- rows left without a type variant ----

\* C15: no ENTRY is appended for a row whose reduced type list is empty.
C15_NoVariantNoEntry ==
    \A n \in DOMAIN object_elem : Col(object_elem[n].column_values, TSV_TYPE) # <<>>

\* ---- the ','-separated lists of nodeValues ----

Bracketed(seg) == Len(seg) >= 2 /\ seg[1] = "[" /\ seg[Len(seg)] = "]"

\* the lists the loops of nodeValues split for an ENTRY: for every type
\* variant that needs a link the bracket-stripped Links segment at its
\* position, for every other variant the bracket-stripped PossibleValues
\* segment at its position
ListsOf(entry) ==
    LET types == java_split(Col(entry.column_values, TSV_TYPE), ";")
        arr_links == java_split(Col(entry.column_values, TSV_LINK), ";")
        pos_values == java_split(Col(entry.column_values, TSV_POSSIBLEVALUES), ";")
    IN  { [ from |-> "links", variant |-> p, a |-> SubSeq(arr_links[p], 2, Len(arr_links[p]) - 1) ] :
            p \in { q \in DOMAIN types :
                      /\ NeedsLink(types[q])
                      /\ q \in DOMAIN arr_links
                      /\ Bracketed(arr_links[q]) } }
        \cup
        { [ from |-> "possible", variant |-> p, a |-> SubSeq(pos_values[p], 2, Len(pos_values[p]) - 1) ] :
            p \in { q \in DOMAIN types :
                      /\ ~NeedsLink(types[q])
                      /\ q \in DOMAIN pos_values
                      /\ Bracketed(pos_values[q]) } }

\* the texts of the VALUE elements one loop appended for one variant
ValueTexts(entry, from, variant) ==
    LET Mine(v) == v.from = from /\ v.variant = variant
        mine == SelectSeq(entry.values, Mine)
    IN  [n \in DOMAIN mine |-> mine[n].text]

\* a predicate that reaches to its balanced ')' and ends there
BalancedPredicate(seg) ==
    startsWith(seg, x_fn) /\ indexOfOuterCloseBracket(seg) = Len(seg) - 1

\* a predicate whose '(' is not closed before the end of the string
UnbalancedPredicate(seg) ==
    /\ startsWith(seg, x_fn)
    /\ \E p \in DOMAIN seg : seg[p] = "("
    /\ indexOfOuterCloseBracket(seg) = -1

\* a list of segments that are names or balanced predicates
WellFormedList(a) ==
    \A n \in DOMAIN Segments(a) :
        LET seg == Segments(a)[n]
        IN  seg # <<>> /\ (startsWith(seg, x_fn) => BalancedPredicate(seg))

\* a list whose last segment is a predicate that is never closed
EndsUnbalanced(a) ==
    /\ a # <<>>
    /\ UnbalancedPredicate(Segments(a)[Len(Segments(a))])
    /\ \A n \in 1..(Len(Segments(a)) - 1) :
         LET seg == Segments(a)[n]
         IN  seg # <<>> /\ (startsWith(seg, x_fn) => BalancedPredicate(seg))

\* the VALUE texts of the segments of a list
SegmentTexts(a) == [n \in DOMAIN Segments(a) |-> replaceBrackets(Segments(a)[n])]

\* C16: for every ENTRY and every Links or PossibleValues list split for it
\* whose segments are names and balanced predicates, the VALUE elements
\* appended for the list are its segments, one each and in order: a segment
\* that begins with "fn:" reaches to its balanced ')', the ',' inside it
\* ending nothing, and every segment after it is whole.
C16_PredicateSegments ==
    \A n \in DOMAIN object_elem : \A l \in ListsOf(object_elem[n]) :
        WellFormedList(l.a) =>
            ValueTexts(object_elem[n], l.from, l.variant) = SegmentTexts(l.a)

\* the document has been written with the values of a Links list and of a
\* PossibleValues list that hold a nested predicate, a name and a predicate
C16_Witness ==
    /\ xml_pc = "done"
    /\ \E n \in DOMAIN object_elem : \E from \in { "links", "possible" } :
         /\ ValueTexts(object_elem[n], from, 1) = << tok_G, tok_Obj, tok_F >>
         /\ \E l \in ListsOf(object_elem[n]) : l.from = from /\ WellFormedList(l.a)

\* C17: for every ENTRY and every Links or PossibleValues list split for it
\* that ends in a predicate whose '(' is never closed, the VALUE elements
\* appended for the list are its segments, the last one holding the whole
\* unclosed predicate up to the end of the string.
C17_UnbalancedPredicate ==
    \A n \in DOMAIN object_elem : \A l \in ListsOf(object_elem[n]) :
        EndsUnbalanced(l.a) =>
            ValueTexts(object_elem[n], l.from, l.variant) = SegmentTexts(l.a)

\* the VALUE elements nodeValues appended for the list of one variant
ListValues(entry, variant) ==
    { m \in DOMAIN entry.values :
        /\ entry.values[m].variant = variant
        /\ entry.values[m].from \in { "links", "possible", "none" } }

\* the type variants of an ENTRY whose list is degenerate: the Links segment
\* (for a type that needs a link) or the PossibleValues segment (for another
\* type) is "[]", or the field is the empty string
EmptyListVariants(entry) ==
    LET types == java_split(Col(entry.column_values, TSV_TYPE), ";")
        arr_links == java_split(Col(entry.column_values, TSV_LINK), ";")
        pos_values == java_split(Col(entry.column_values, TSV_POSSIBLEVALUES), ";")
    IN  { p \in DOMAIN types :
            IF NeedsLink(types[p])
            THEN p \in DOMAIN arr_links /\ arr_links[p] = str_EmptySet
            ELSE \/ Col(entry.column_values, TSV_POSSIBLEVALUES) # <<>>
                    /\ p \in DOMAIN pos_values /\ pos_values[p] = str_EmptySet }

BlankPossibleVariants(entry) ==
    LET types == java_split(Col(entry.column_values, TSV_TYPE), ";")
    IN  { p \in DOMAIN types :
            ~NeedsLink(types[p]) /\ Col(entry.column_values, TSV_POSSIBLEVALUES) = <<>> }

MaxObjects == 2

\* the identity of the trailer dictionary
TrailerObject == 0

\* what Get returns for a key the object does not have
NoObject == -1

PageObjects == 1..MaxObjects

\* the walks a run may take before it is cut off; a run that walks every
\* (object, expected type) pair once stays below it
WalkCap == 2 * (2 * MaxObjects + 1)

DocumentKeys == << "Root", "Parent", "Kids" >>

\* the documents validated: the trailer's Root, and every other object's
\* Parent and Kids, name an object of the document or are absent
DocumentInputs ==
    [ root : PageObjects \cup { NoObject },
      parent : [PageObjects -> PageObjects \cup { NoObject }],
      kids : [PageObjects -> PageObjects \cup { NoObject }] ]

\* key-to-object resolution of the document object provider
Get(doc, object, key) ==
    IF object = TrailerObject
    THEN IF key = "Root" THEN doc.root ELSE NoObject
    ELSE IF key = "Parent" THEN doc.parent[object]
    ELSE IF key = "Kids" THEN doc.kids[object]
    ELSE NoObject

\* the rows of the reduced grammar object of a type
GrammarRows(type) ==
    IF type = "FileTrailer"
    THEN << [ key |-> "Root", required |-> TRUE, link |-> "PageTreeNode" ] >>
    ELSE IF type = "PageTreeNode"
    THEN << [ key |-> "Parent", required |-> FALSE, link |-> "PageTreeNode" ],
            [ key |-> "Kids", required |-> TRUE, link |-> "PageObject" ] >>
    ELSE IF type = "PageObject"
    THEN << [ key |-> "Parent", required |-> TRUE, link |-> "PageTreeNode" ] >>
    ELSE <<>>

Declared(type) == { GrammarRows(type)[n].key : n \in DOMAIN GrammarRows(type) }

\* "for every declared row whose required evaluates true and whose key is
\* absent from the object: emit MissingRequiredKey"
MissingRequiredKeys(doc, elem) ==
    LET Missing(row) == row.required /\ Get(doc, elem.object, row.key) = NoObject
        rows == SelectSeq(GrammarRows(elem.link), Missing)
    IN  [n \in DOMAIN rows |->
            [ object |-> elem.object, link |-> elem.link, key |-> rows[n].key,
              kind |-> "MissingRequiredKey" ]]

\* "for every key present on the object but not declared in the grammar:
\* emit UnexpectedKey"
UnexpectedKeys(doc, elem) ==
    LET Unexpected(key) == Get(doc, elem.object, key) # NoObject /\ key \notin Declared(elem.link)
        keys == SelectSeq(DocumentKeys, Unexpected)
    IN  [n \in DOMAIN keys |->
            [ object |-> elem.object, link |-> elem.link, key |-> keys[n],
              kind |-> "UnexpectedKey" ]]

\* "if the matched variant carries a links target, recurse: push
\* Pending(resolved_value, link_target, path + key)"
LinkedObjects(doc, elem) ==
    LET Linked(row) == Get(doc, elem.object, row.key) # NoObject
        rows == SelectSeq(GrammarRows(elem.link), Linked)
    IN  [n \in DOMAIN rows |->
            [ object |-> Get(doc, elem.object, rows[n].key), link |-> rows[n].link ]]

\* a slip: only the object named by the trailer's Root is remembered
AlreadyVisited_RootOnly(elem, visited) == elem \in visited /\ elem.link = "FileTrailer"

\* the (object identity, expected type) pair is in the run's visited set
AlreadyVisited(elem, visited) == elem \in visited

InitWalk ==
    /\ GrammarIdle
    /\ XmlIdle
    /\ SdkIdle
    /\ LoopObjMainIdle
    /\ walk_doc \in DocumentInputs
    /\ to_process = <<>>
    /\ mapped = {}
    /\ walked = <<>>
    /\ skipped = <<>>
    /\ walk_report = <<>>
    /\ walk_pc = "start"

\* parser.add_parse_object(trailer, "FileTrailer", "Trailer", empty)
add_parse_object ==
    /\ walk_pc = "start"
    /\ to_process' = << [ object |-> TrailerObject, link |-> "FileTrailer" ] >>
    /\ walk_pc' = "run"
    /\ UNCHANGED << walk_doc, mapped, walked, skipped, walk_report >>
    /\ UNCHANGED << grammar_vars, xml_vars, sdk_vars, loop_vars, obj_vars, main_vars >>

\* Pending -> Visiting -> terminal: the pair is walked
parse_object_visit ==
    /\ walk_pc = "run"
    /\ to_process # <<>>
    /\ ~AlreadyVisited(Head(to_process), mapped)
    /\ Len(walked) < WalkCap
    /\ mapped' = mapped \cup { Head(to_process) }
    /\ walked' = Append(walked, Head(to_process))
    /\ walk_report' = walk_report \o MissingRequiredKeys(walk_doc, Head(to_process))
                                  \o UnexpectedKeys(walk_doc, Head(to_process))
    /\ to_process' = Tail(to_process) \o LinkedObjects(walk_doc, Head(to_process))
    /\ UNCHANGED << walk_doc, skipped, walk_pc >>
    /\ UNCHANGED << grammar_vars, xml_vars, sdk_vars, loop_vars, obj_vars, main_vars >>

\* Pending -> Accepted: the pair is in the visited set and is not walked
\* again
parse_object_accept ==
    /\ walk_pc = "run"
    /\ to_process # <<>>
    /\ AlreadyVisited(Head(to_process), mapped)
    /\ skipped' = Append(skipped, Head(to_process))
    /\ to_process' = Tail(to_process)
    /\ UNCHANGED << walk_doc, mapped, walked, walk_report, walk_pc >>
    /\ UNCHANGED << grammar_vars, xml_vars, sdk_vars, loop_vars, obj_vars, main_vars >>

\* nothing is pending: parse_object returns
parse_object_return ==
    /\ walk_pc = "run"
    /\ to_process = <<>>
    /\ walk_pc' = "done"
    /\ UNCHANGED << walk_doc, to_process, mapped, walked, skipped, walk_report >>
    /\ UNCHANGED << grammar_vars, xml_vars, sdk_vars, loop_vars, obj_vars, main_vars >>

NextWalk ==
    \/ add_parse_object
    \/ parse_object_visit
    \/ parse_object_accept
    \/ parse_object_return

SpecWalk == InitWalk /\ [][NextWalk]_vars

\* the run is one synchronous loop: a step that can be taken is taken
SpecWalkFair == SpecWalk /\ WF_vars(NextWalk)

\* ---- termination on cyclic graphs ----

WalkedPairs == { walked[n] : n \in DOMAIN walked }

NoPairWalkedTwice ==
    \A m, n \in DOMAIN walked : m # n => walked[m] # walked[n]

\* a pair accepted without a walk was in the visited set: it has been
\* walked before
SkippedWereWalked ==
    \A n \in DOMAIN skipped : skipped[n] \in WalkedPairs /\ skipped[n] \in mapped

PairOf(diagnostic) == [ object |-> diagnostic.object, link |-> diagnostic.link ]

\* the diagnostics reported for a pair
DiagnosticsOf(elem) == { n \in DOMAIN walk_report : PairOf(walk_report[n]) = elem }

\* every diagnostic belongs to a pair walked and is reported once
DiagnosticsOnce ==
    /\ \A n \in DOMAIN walk_report : PairOf(walk_report[n]) \in WalkedPairs
    /\ \A m, n \in DOMAIN walk_report : m # n => walk_report[m] # walk_report[n]

\* the Parent chain of an object, followed for a number of steps
RECURSIVE ParentChain(_, _, _)
ParentChain(doc, object, steps) ==
    IF steps = 0 \/ object = NoObject \/ object = TrailerObject
    THEN {}
    ELSE { doc.parent[object] } \cup ParentChain(doc, doc.parent[object], steps - 1)

\* an object whose Parent chain points back to itself
OnParentCycle(doc, object) == object \in ParentChain(doc, object, MaxObjects)

MaxCalls == 3

TrailerKeys == { "Type", "Root", "Info" }

\* the files get_trailer is called with: whether OpenDoc opens the file,
\* whether GetTrailerObject finds the trailer, and the keys the trailer holds
PdfFileInputs ==
    { [ opens |-> FALSE, trailer |-> FALSE, keys |-> {} ],
      [ opens |-> TRUE, trailer |-> FALSE, keys |-> {} ] }
    \cup { [ opens |-> TRUE, trailer |-> TRUE, keys |-> keys ] : keys \in SUBSET TrailerKeys }

\* root_key->GetObjectType() and info_key->GetObjectType() are called on what
\* trailer->Get returned, which is nullptr for a key the trailer does not
\* hold
NullDereferenced(file) == "Root" \notin file.keys \/ "Info" \notin file.keys

\* what one call of get_trailer can end in: "nullptr", a "handle", or, where a
\* null pointer is dereferenced, whatever the build makes of it: the program
\* is ended ("crashed") or the call goes on
get_trailer_outcomes(file) ==
    IF ~file.opens \/ ~file.trailer
    THEN { "nullptr" }
    ELSE IF NullDereferenced(file)
    THEN { "crashed", "handle" }
    ELSE { "handle" }

\* the ways initialize can fail: Pdfix_init, GetPdfix, the version
\* comparison, Authorize; "none" when nothing fails
InitializeFailures == { "none", "Pdfix_init", "GetPdfix", "version", "Authorize" }

\* what one call is recorded as in sdk_log
SdkCall(call, thrown, destroyed, ctx_after, debugging_after) ==
    [ call |-> call, thrown |-> thrown, destroyed |-> destroyed,
      ctx_before |-> ctx, ctx_after |-> ctx_after,
      debugging_before |-> debugging, debugging_after |-> debugging_after ]

\* the calls of the SDK made so far
SdkCalls == Len(sdk_log) + Len(sdk_returned)

\* a slip: the flag is assigned before the SDK is set up
initialized_FlagFirst(failure, enable_debugging) ==
    [ thrown |-> failure # "none",
      ctx |-> IF failure = "none" THEN TRUE ELSE ctx,
      debugging |-> enable_debugging ]

\* the body of initialize after its assert: a runtime_error is thrown, or
\* the flag and the context are assigned
initialized(failure, enable_debugging) ==
    [ thrown |-> failure # "none",
      ctx |-> IF failure = "none" THEN TRUE ELSE ctx,
      debugging |-> IF failure = "none" THEN enable_debugging ELSE debugging ]

InitSdk ==
    /\ GrammarIdle
    /\ XmlIdle
    /\ WalkIdle
    /\ LoopObjMainIdle
    /\ ctx = FALSE
    /\ debugging = FALSE
    /\ sdk_file = <<>>
    /\ sdk_returned = <<>>
    /\ sdk_log = <<>>
    /\ sdk_pc = "ready"

\* ArlingtonPDFSDK::initialize. `assert(ctx == nullptr)`: called with a
\* context, the assert ends the program where asserts are compiled in, and
\* the call goes on where they are not
initialize ==
    /\ sdk_pc = "ready"
    /\ SdkCalls < MaxCalls
    /\ \E enable_debugging \in BOOLEAN, failure \in InitializeFailures, asserts \in BOOLEAN :
         IF ctx /\ asserts
         THEN /\ sdk_pc' = "aborted"
              /\ UNCHANGED << ctx, debugging, sdk_log >>
         ELSE LET after == initialized(failure, enable_debugging)
              IN  /\ ctx' = after.ctx
                  /\ debugging' = after.debugging
                  /\ sdk_log' = Append(sdk_log,
                        SdkCall("initialize", after.thrown, FALSE, after.ctx, after.debugging))
                  /\ UNCHANGED sdk_pc
    /\ UNCHANGED << sdk_file, sdk_returned >>
    /\ UNCHANGED << grammar_vars, xml_vars, walk_vars, loop_vars, obj_vars, main_vars >>

\* set_xrefstm(type_key != nullptr)
is_xrefstm(keys) == "Type" \in keys

\* ArlingtonPDFSDK::get_trailer
get_trailer ==
    /\ sdk_pc = "ready"
    /\ ctx
    /\ SdkCalls < MaxCalls
    /\ \E file \in PdfFileInputs, outcome \in { "nullptr", "handle", "crashed" } :
         /\ outcome \in get_trailer_outcomes(file)
         /\ sdk_file' = file
         /\ IF outcome = "crashed"
            THEN /\ sdk_pc' = "crashed"
                 /\ UNCHANGED sdk_returned
            ELSE /\ sdk_returned' = Append(sdk_returned,
                        [ file |-> file,
                          trailer_obj |-> outcome,
                          is_xrefstm |-> outcome = "handle" /\ is_xrefstm(file.keys) ])
                 /\ UNCHANGED sdk_pc
    /\ UNCHANGED << ctx, debugging, sdk_log >>
    /\ UNCHANGED << grammar_vars, xml_vars, walk_vars, loop_vars, obj_vars, main_vars >>

\* ArlingtonPDFSDK::shutdown
shutdown ==
    /\ sdk_pc = "ready"
    /\ SdkCalls < MaxCalls
    /\ ctx' = FALSE
    /\ sdk_log' = Append(sdk_log, SdkCall("shutdown", FALSE, ctx, FALSE, debugging))
    /\ UNCHANGED << debugging, sdk_file, sdk_returned, sdk_pc >>
    /\ UNCHANGED << grammar_vars, xml_vars, walk_vars, loop_vars, obj_vars, main_vars >>

NextSdk ==
    \/ initialize
    \/ get_trailer
    \/ shutdown

SpecSdk == InitSdk /\ [][NextSdk]_vars

\* ---- the outcomes of get_trailer ----

\* C20: no call of get_trailer ends the program; every call returns, a
\* handle to the trailer dictionary when the document opened and its trailer
\* was found, whatever keys the trailer holds, and nullptr otherwise.
C20_HandleOrNullptr ==
    /\ sdk_pc # "crashed"
    /\ \A n \in DOMAIN sdk_returned :
         sdk_returned[n].trailer_obj =
            IF sdk_returned[n].file.opens /\ sdk_returned[n].file.trailer
            THEN "handle" ELSE "nullptr"

\* ---- the INDIRECT_REFERENCE element ----

\* the IndirectReference field is given per type variant: ';'-separated
\* bracketed segments
PerVariantIndirect(col_value) ==
    /\ col_value # <<>>
    /\ \A n \in DOMAIN java_split(col_value, ";") : Bracketed(java_split(col_value, ";")[n])

\* C30: for every ENTRY built from a row whose IndirectReference field is
\* given per type variant, the INDIRECT_REFERENCE element holds one text for
\* every segment, in the order of the segments, and the text is the segment
\* without its '[' and ']' (in the letter case of the field or in lower
\* case).
C30_OwnSegments ==
    \A n \in DOMAIN object_elem :
        LET col_value == Col(object_elem[n].column_values, TSV_INDIRECTREF)
            ir_arr == java_split(col_value, ";")
            texts == object_elem[n].indirect_reference
        IN  PerVariantIndirect(col_value) =>
                /\ Len(texts) = Len(ir_arr)
                /\ \A m \in DOMAIN ir_arr :
                     \/ texts[m] = SubSeq(ir_arr[m], 2, Len(ir_arr[m]) - 1)
                     \/ texts[m] = toLowerCase(SubSeq(ir_arr[m], 2, Len(ir_arr[m]) - 1))

\* ---- the reads of def_val ----

\* C28: for every data row check() has reached, every position at which the
\* possible-value loop reads def_val (a complex type variant in a row with a
\* non-empty PossibleValues field) is a position PossibleValues has a
\* segment at, and the program has not been ended by such a read.
C28_ReadsWithinDefVal ==
    /\ pc # "crashed"
    /\ \A r \in Started :
         ReadsPastEnd(split(TypeOf(r), ";"), data_list[r]) = {}

\* ------------------------------------------------------------------------
\* CGrammarReader::load on files with short lines
\* ------------------------------------------------------------------------

ShortRowCells == << in_K1, in_name, in_1_0, <<>>, in_TRUE, in_false, in_false, <<>>,
                    <<>>, <<>>, <<>>, <<>> >>

\* data lines: the empty line, lines that end after the key, the type, the
\* Required, the IndirectReference or the Inheritable column, and a whole row
ShortRowInputs ==
    { <<>> } \cup { Join(SubSeq(ShortRowCells, 1, n)) : n \in { 1, 2, 5, 6, 7, 12 } }

ShortRowSeqs(n) == UNION { [1..m -> ShortRowInputs] : m \in 0..n }

\* the files read: a header, whole or without the optional Note column or
\* too short, followed by data lines
ShortFileInputs ==
    { << h >> \o rows :
        h \in { GoodHeader, Join(SubSeq(HeaderCells, 1, 11)), Join(SubSeq(HeaderCells, 1, 7)) },
        rows \in ShortRowSeqs(MaxRows) }

InitLoad ==
    /\ lines \in ShortFileInputs
    /\ folder = {}
    /\ pos = 0
    /\ data_list = <<>>
    /\ pc = "load"
    /\ load_ret = "none"
    /\ check_ret = "none"
    /\ report_stream = <<>>
    /\ i = 0
    /\ processed = <<>>
    /\ XmlIdle
    /\ WalkIdle
    /\ SdkIdle
    /\ LoopObjMainIdle

NextLoad ==
    \/ LoadLine
    \/ LoadReturn

SpecLoad == InitLoad /\ [][NextLoad]_vars

\* C27: load() has not been ended by a read past the end of a row, and
\* every data line it has converted has the Type, Required,
\* IndirectReference and Inheritable columns.
C27_ReadsWithinRow ==
    /\ pc # "crashed"
    /\ \A r \in 2..pos : ColumnsPastEnd(SplitLine(lines[r])) = {}

\* ---- the context across initialize and shutdown ----

\* initialize was only called without a context, as its assert asks
InitializedOnNull ==
    \A n \in DOMAIN sdk_log : sdk_log[n].call = "initialize" => ~sdk_log[n].ctx_before

SuccessfulInitialize(call) == call.call = "initialize" /\ ~call.thrown

\* the context is not null exactly when the last call of initialize or
\* shutdown was an initialize that did not throw
ContextFollowsLastCall ==
    ctx = (sdk_log # <<>> /\ SuccessfulInitialize(sdk_log[Len(sdk_log)]))

\* an initialize that throws leaves the context null and the flag as it was
ThrowLeavesNull ==
    \A n \in DOMAIN sdk_log :
        sdk_log[n].thrown =>
            /\ ~sdk_log[n].ctx_after
            /\ sdk_log[n].debugging_after = sdk_log[n].debugging_before

\* shutdown without a context does nothing
ShutdownOnNull ==
    \A n \in DOMAIN sdk_log :
        (sdk_log[n].call = "shutdown" /\ ~sdk_log[n].ctx_before) =>
            /\ ~sdk_log[n].destroyed
            /\ ~sdk_log[n].ctx_after
            /\ sdk_log[n].debugging_after = sdk_log[n].debugging_before

\* up to every call, Destroy was invoked at most as often as initialize
\* succeeded
DestroyOncePerInitialize ==
    \A n \in DOMAIN sdk_log :
        Cardinality({ m \in 1..n : sdk_log[m].destroyed })
            <= Cardinality({ m \in 1..n : SuccessfulInitialize(sdk_log[m]) })

\* C26 as stated: after any sequence of initialize and shutdown calls the
\* context is not null exactly when the last call was an initialize that did
\* not throw; an initialize that throws leaves the context null and the
\* debugging flag unchanged; shutdown without a context does nothing;
\* Destroy is invoked at most once for every successful initialize.
C26_AnySequence ==
    /\ ContextFollowsLastCall
    /\ ThrowLeavesNull
    /\ ShutdownOnNull
    /\ DestroyOncePerInitialize

\* C26 amended: the same, after any sequence of initialize and shutdown
\* calls in which initialize is only called while the context is null.
C26_Context ==
    InitializedOnNull =>
        /\ ContextFollowsLastCall
        /\ ThrowLeavesNull
        /\ ShutdownOnNull
        /\ DestroyOncePerInitialize

\* an initialize that threw, then one that succeeded with the flag set,
\* then the shutdown that destroyed the context
C26_Witness ==
    /\ InitializedOnNull
    /\ Len(sdk_log) = 3
    /\ sdk_log[1].call = "initialize" /\ sdk_log[1].thrown
    /\ SuccessfulInitialize(sdk_log[2]) /\ sdk_log[2].debugging_after
    /\ sdk_log[3].call = "shutdown" /\ sdk_log[3].destroyed
    /\ ~ctx

\* ------------------------------------------------------------------------
\* the while loops of XMLCreator.nodeValues, turn by turn
\* ------------------------------------------------------------------------

\* bound: the pieces an input string of the loops is put together from
MaxPieces == 3

\* the pieces: the start of a predicate, brackets, a comma, a name, a stray
\* ']' and a space
PieceInputs ==
    { << "f", "n", ":", "F", "(" >>, << "(" >>, << ")" >>, << "," >>, << "x" >>, << "]" >>, << " " >> }

LoopInputs ==
    { Flatten(pieces) : pieces \in UNION { [1..n -> PieceInputs] : n \in 0..MaxPieces } }

InitLoop ==
    /\ GrammarIdle
    /\ XmlIdle
    /\ WalkIdle
    /\ SdkIdle
    /\ ObjIdle
    /\ MainIdle
    /\ loop_list \in { "links", "possible" }
    /\ loop_input \in LoopInputs
    /\ loop_a = loop_input
    /\ loop_values = <<>>
    /\ loop_pc = "loop"

\* one turn of `while (!a.isBlank())`
LoopTurn ==
    /\ loop_pc = "loop"
    /\ ~isBlank(loop_a)
    /\ LET turn == IF loop_list = "links" THEN LinksTurn(loop_a) ELSE PossibleValuesTurn(loop_a)
       IN  /\ loop_values' = Append(loop_values, turn.s)
           /\ loop_a' = turn.a
    /\ UNCHANGED << loop_list, loop_input, loop_pc >>
    /\ UNCHANGED << grammar_vars, xml_vars, walk_vars, sdk_vars, obj_vars, main_vars >>

\* a is blank: the loop is left
LoopExit ==
    /\ loop_pc = "loop"
    /\ isBlank(loop_a)
    /\ loop_pc' = "done"
    /\ UNCHANGED << loop_list, loop_input, loop_a, loop_values >>
    /\ UNCHANGED << grammar_vars, xml_vars, walk_vars, sdk_vars, obj_vars, main_vars >>

NextLoop ==
    \/ LoopTurn
    \/ LoopExit

SpecLoop == InitLoop /\ [][NextLoop]_vars

\* a turn of the loop that can be taken is taken
SpecLoopFair == SpecLoop /\ WF_vars(NextLoop)

\* C29: every turn of the two loops leaves a strictly shorter string, and
\* the loop is left: a is blank in the end, for every input string.
C29_LoopsTerminate ==
    /\ [][loop_pc = "loop" /\ loop_pc' = "loop" => Len(loop_a') < Len(loop_a)]_vars
    /\ <>(loop_pc = "done" /\ isBlank(loop_a))

\* a loop has been left after more than one turn on a string that starts
\* with a doubled comma, and a loop on a predicate that is never closed
C29_Witness ==
    /\ loop_pc = "done"
    /\ Len(loop_values) > 1
    /\ \/ loop_input = << ",", ",", "x" >>
       \/ loop_input = << "f", "n", ":", "F", "(", ",", "x" >>

\* ------------------------------------------------------------------------
\* the scalar accessors of the PDF SDK objects
\* ------------------------------------------------------------------------

\* PdfObjectType
ObjectKinds ==
    { "kPdsUnknown", "kPdsBoolean", "kPdsNumber", "kPdsString", "kPdsName", "kPdsArray",
      "kPdsDictionary", "kPdsStream", "kPdsNull", "kPdsReference" }

\* the objects an accessor is invoked on: an object of every kind, the
\* number as an integer and as a real
ObjectInputs ==
    { [ kind |-> kind, integer |-> FALSE ] : kind \in ObjectKinds }
        \cup { [ kind |-> "kPdsNumber", integer |-> TRUE ] }

\* what a call that breaks an accessor's assert leads to: the assert ends
\* the program where asserts are compiled in; where they are not, the object
\* is used as an object of the accessor's class, which is not defined: a
\* value is returned or the program is ended
BrokenAssertOutcomes == { "aborted", "value", "crashed" }

\* how a call ends whose only assert on the object is that of its kind
kind_checked(kind) ==
    IF pdf_object.kind = kind THEN { "value" } ELSE BrokenAssertOutcomes

InitObject ==
    /\ GrammarIdle
    /\ XmlIdle
    /\ WalkIdle
    /\ SdkIdle
    /\ LoopIdle
    /\ MainIdle
    /\ pdf_object \in ObjectInputs
    /\ accessor = "none"
    /\ retval = "none"
    /\ obj_pc = "object"

ArlPDFBoolean_get_value ==
    /\ obj_pc = "object"
    /\ accessor' = "ArlPDFBoolean::get_value"
    /\ retval' \in kind_checked("kPdsBoolean")
    /\ obj_pc' = "called"
    /\ UNCHANGED pdf_object
    /\ UNCHANGED << grammar_vars, xml_vars, walk_vars, sdk_vars, loop_vars, main_vars >>

ArlPDFNumber_is_integer_value ==
    /\ obj_pc = "object"
    /\ accessor' = "ArlPDFNumber::is_integer_value"
    /\ retval' \in kind_checked("kPdsNumber")
    /\ obj_pc' = "called"
    /\ UNCHANGED pdf_object
    /\ UNCHANGED << grammar_vars, xml_vars, walk_vars, sdk_vars, loop_vars, main_vars >>

\* `assert(obj->IsIntegerValue())` comes after the assert on the kind
ArlPDFNumber_get_integer_value ==
    /\ obj_pc = "object"
    /\ accessor' = "ArlPDFNumber::get_integer_value"
    /\ IF pdf_object.kind # "kPdsNumber"
       THEN retval' \in BrokenAssertOutcomes
       ELSE IF pdf_object.integer
       THEN retval' = "value"
       ELSE retval' \in { "aborted", "value" }
    /\ obj_pc' = "called"
    /\ UNCHANGED pdf_object
    /\ UNCHANGED << grammar_vars, xml_vars, walk_vars, sdk_vars, loop_vars, main_vars >>

ArlPDFNumber_get_value ==
    /\ obj_pc = "object"
    /\ accessor' = "ArlPDFNumber::get_value"
    /\ retval' \in kind_checked("kPdsNumber")
    /\ obj_pc' = "called"
    /\ UNCHANGED pdf_object
    /\ UNCHANGED << grammar_vars, xml_vars, walk_vars, sdk_vars, loop_vars, main_vars >>

ArlPDFString_get_value ==
    /\ obj_pc = "object"
    /\ accessor' = "ArlPDFString::get_value"
    /\ retval' \in kind_checked("kPdsString")
    /\ obj_pc' = "called"
    /\ UNCHANGED pdf_object
    /\ UNCHANGED << grammar_vars, xml_vars, walk_vars, sdk_vars, loop_vars, main_vars >>

ArlPDFName_get_value ==
    /\ obj_pc = "object"
    /\ accessor' = "ArlPDFName::get_value"
    /\ retval' \in kind_checked("kPdsName")
    /\ obj_pc' = "called"
    /\ UNCHANGED pdf_object
    /\ UNCHANGED << grammar_vars, xml_vars, walk_vars, sdk_vars, loop_vars, main_vars >>

NextObject ==
    \/ ArlPDFBoolean_get_value
    \/ ArlPDFNumber_is_integer_value
    \/ ArlPDFNumber_get_integer_value
    \/ ArlPDFNumber_get_value
    \/ ArlPDFString_get_value
    \/ ArlPDFName_get_value

SpecObject == InitObject /\ [][NextObject]_vars

\* the kind an accessor is for
AccessorKind ==
    CASE accessor = "ArlPDFBoolean::get_value" -> "kPdsBoolean"
      [] accessor = "ArlPDFString::get_value" -> "kPdsString"
      [] accessor = "ArlPDFName::get_value" -> "kPdsName"
      [] OTHER -> "kPdsNumber"

\* C21: an accessor invoked on an object whose kind is not the accessor's
\* kind has failed on the kind check: it has not returned a value and it has
\* not run into the object as an object of its own class.
C21_TypeChecked ==
    (obj_pc = "called" /\ pdf_object.kind # AccessorKind) => retval = "aborted"

\* ---------------------------------------------------------------------
\* main of TestGrammar: the reports of a folder of PDF files, or of one file
\* (GrammarFile.cpp, lines 336 to 408)
\* ---------------------------------------------------------------------

\* bound: the directory entries the folder holds
MaxFiles == 2

\* the position of the last period of a file name, 0 where it has none
lastDot(name) ==
    IF \E p \in DOMAIN name : name[p] = "."
    THEN CHOOSE p \in DOMAIN name :
            name[p] = "." /\ \A q \in DOMAIN name : name[q] = "." => q <= p
    ELSE 0

\* std::filesystem::path::extension of a file name: from the last period on;
\* none for "." and "..", and none where the only period is the first character
extension(name) ==
    IF name = << "." >> \/ name = << ".", "." >> \/ lastDot(name) <= 1
    THEN <<>>
    ELSE SubSeq(name, lastDot(name), Len(name))

\* std::filesystem::path::stem: the file name without its extension
stem(name) == SubSeq(name, 1, Len(name) - Len(extension(name)))

\* std::filesystem::path::replace_extension
replace_extension(name, replacement) == stem(name) \o replacement

dot_pdf == << ".", "p", "d", "f" >>
dot_txt == << ".", "t", "x", "t" >>

\* the file names of the directory entries and of the reports
a_pdf == << "a" >> \o dot_pdf
a__pdf == << "a", "_" >> \o dot_pdf
a_b_pdf == << "a", ".", "b" >> \o dot_pdf
a_txt == << "a" >> \o dot_txt
a__txt == << "a", "_" >> \o dot_txt

\* the regular files recursive_directory_iterator gives: the same name can
\* come from two folders below the input folder
EntryNames == { a_pdf, a__pdf, a_b_pdf, a_txt }

\* a folder with fewer PDF files is one with other files among the entries
DirectoryInputs == [ 1..MaxFiles -> EntryNames ]

\* what the output folder holds when the program starts
ExistingReports == { {}, { a_txt }, { a_txt, a__txt } }

\* the keys of the trailers of the documents opened
TrailerInputs == { { "Root", "Info" }, { "Type", "Root", "Info" } }

\* what the SDK and the parser do with one file: OpenDoc returns nullptr,
\* throws, or returns a document, whose trailer GetTrailerObject finds or
\* not, and on which parse_object returns or throws
PdfOutcomes ==
    { [ open |-> "nullptr", trailer |-> FALSE, keys |-> {}, parse |-> "none" ],
      [ open |-> "throws", trailer |-> FALSE, keys |-> {}, parse |-> "none" ],
      [ open |-> "doc", trailer |-> FALSE, keys |-> {}, parse |-> "none" ] }
    \cup { [ open |-> "doc", trailer |-> TRUE, keys |-> keys, parse |-> parse ] :
              keys \in TrailerInputs, parse \in { "returns", "throws" } }

\* doc->Close() on a document that is closed already is undefined: the
\* program is ended or goes on
ClosedTwiceOutcomes == { "crashed", "goes on" }

InitMain ==
    /\ report_dir \in ExistingReports
    /\ \/ /\ main_entry \in DirectoryInputs
          /\ rptfile = <<>>
          /\ main_pc = "next"
       \/ /\ main_entry \in { << name >> : name \in { a_pdf, a_b_pdf } }
          /\ rptfile \in { a_txt, a__txt }
          /\ main_pc = "single_file"
    /\ tries = 0
    /\ reports = <<>>
    /\ main_doc = 0
    /\ opened = 0
    /\ closes = <<>>
    /\ started = <<>>
    /\ GrammarIdle
    /\ XmlIdle
    /\ WalkIdle
    /\ SdkIdle
    /\ LoopIdle
    /\ ObjIdle

\* a directory entry that is a PDF file: the report is named after its stem
folder_entry ==
    /\ main_pc = "next"
    /\ main_entry # <<>>
    /\ extension(Head(main_entry)) = dot_pdf
    /\ rptfile' = replace_extension(stem(Head(main_entry)), dot_txt)
    /\ tries' = 0
    /\ main_pc' = "exists"
    /\ UNCHANGED << main_entry, report_dir, reports, main_doc, opened, closes, started >>
    /\ UNCHANGED << grammar_vars, xml_vars, walk_vars, sdk_vars, loop_vars, obj_vars >>

\* a directory entry that is no PDF file is passed over
folder_skip ==
    /\ main_pc = "next"
    /\ main_entry # <<>>
    /\ extension(Head(main_entry)) # dot_pdf
    /\ main_entry' = Tail(main_entry)
    /\ UNCHANGED << report_dir, rptfile, tries, reports, main_doc, opened, closes, started, main_pc >>
    /\ UNCHANGED << grammar_vars, xml_vars, walk_vars, sdk_vars, loop_vars, obj_vars >>

\* the name tried after one that exists: forgets the underscore
underscored_Same(name) == replace_extension(stem(name), dot_txt)

\* the name tried after one that exists
underscored(name) == replace_extension(stem(name) \o << "_" >>, dot_txt)

\* one turn of while (std::filesystem::exists(rptfile))
exists_turn ==
    /\ main_pc = "exists"
    /\ rptfile \in report_dir
    /\ rptfile' = underscored(rptfile)
    /\ tries' = tries + 1
    /\ UNCHANGED << main_entry, report_dir, reports, main_doc, opened, closes, started, main_pc >>
    /\ UNCHANGED << grammar_vars, xml_vars, walk_vars, sdk_vars, loop_vars, obj_vars >>

\* the loop is left with a name that does not exist
exists_exit ==
    /\ main_pc = "exists"
    /\ rptfile \notin report_dir
    /\ main_pc' = "single_pdf"
    /\ UNCHANGED << main_entry, report_dir, rptfile, tries, reports, main_doc, opened, closes, started >>
    /\ UNCHANGED << grammar_vars, xml_vars, walk_vars, sdk_vars, loop_vars, obj_vars >>

\* the link the walk starts with on the trailer: exchanged
trailer_link_Exchanged(keys) ==
    IF "Type" \notin keys THEN "XRefStream" ELSE "FileTrailer"

\* the link the walk starts with on the trailer: trailer->Get(L"Type") is
\* nullptr where the trailer has no Type key
trailer_link(keys) ==
    IF "Type" \notin keys THEN "FileTrailer" ELSE "XRefStream"

\* the lines single_pdf writes to the report
ReportLines(outcome) ==
    << "BEGIN" >>
    \o ( IF outcome.open = "nullptr" THEN << "Error: Failed to open" >>
         ELSE IF outcome.open = "throws" THEN << "Error: EXCEPTION" >>
         ELSE IF ~outcome.trailer THEN << "Error: failed to acquire Trailer" >>
         ELSE IF outcome.parse = "throws" THEN << "Error: EXCEPTION" >>
         ELSE <<>> )
    \o << "END" >>

\* doc after the try block: the lambda captures doc of main by reference, and
\* an OpenDoc that throws assigns nothing, so that doc is still the document
\* of the file before
DocAfter(outcome) ==
    IF outcome.open = "nullptr" THEN 0
    ELSE IF outcome.open = "throws" THEN main_doc
    ELSE opened + 1

Closed == { closes[p] : p \in DOMAIN closes }

\* the lambda single_pdf, called with a file and the name of its report, and
\* where main goes on after it
single_pdf(mode, after) ==
    \E outcome \in PdfOutcomes, closed_twice \in ClosedTwiceOutcomes :
        /\ reports' = Append(reports,
                [ mode |-> mode,
                  file |-> Head(main_entry),
                  name |-> rptfile,
                  existed |-> rptfile \in report_dir,
                  lines |-> ReportLines(outcome) ])
        /\ report_dir' = report_dir \cup { rptfile }
        /\ opened' = IF outcome.open = "doc" THEN opened + 1 ELSE opened
        /\ started' = IF outcome.trailer
                      THEN Append(started, [ keys |-> outcome.keys,
                                             link |-> trailer_link(outcome.keys) ])
                      ELSE started
        /\ main_doc' = DocAfter(outcome)
        /\ closes' = IF DocAfter(outcome) # 0
                     THEN Append(closes, DocAfter(outcome))
                     ELSE closes
        /\ main_pc' = IF DocAfter(outcome) \in Closed /\ closed_twice = "crashed"
                      THEN "crashed"
                      ELSE after
        /\ main_entry' = Tail(main_entry)
        /\ UNCHANGED << rptfile, tries >>
        /\ UNCHANGED << grammar_vars, xml_vars, walk_vars, sdk_vars, loop_vars, obj_vars >>

\* single_pdf(entry.path().wstring(), rptfile.wstring()) in the folder loop
folder_single_pdf ==
    /\ main_pc = "single_pdf"
    /\ single_pdf("folder", "next")

\* single_pdf(input_file, save_path) where the input is no folder
file_single_pdf ==
    /\ main_pc = "single_file"
    /\ single_pdf("file", "done")

\* the directory iterator is at its end
folder_end ==
    /\ main_pc = "next"
    /\ main_entry = <<>>
    /\ main_pc' = "done"
    /\ UNCHANGED << main_entry, report_dir, rptfile, tries, reports, main_doc, opened, closes, started >>
    /\ UNCHANGED << grammar_vars, xml_vars, walk_vars, sdk_vars, loop_vars, obj_vars >>

NextMain ==
    \/ folder_entry
    \/ folder_skip
    \/ exists_turn
    \/ exists_exit
    \/ folder_single_pdf
    \/ file_single_pdf
    \/ folder_end

SpecMain == InitMain /\ [][NextMain]_vars

\* main is one thread that runs on until it returns or the program is ended
SpecMainFair == SpecMain /\ WF_vars(NextMain)

\* C22: a run starts at the trailer with the link XRefStream exactly when the
\* trailer has a Type key and with FileTrailer otherwise, and that is the
\* choice get_trailer of the shim records with set_xrefstm
C22_TrailerLink ==
    \A p \in DOMAIN started :
        /\ started[p].link \in { "XRefStream", "FileTrailer" }
        /\ started[p].link = "XRefStream" <=> "Type" \in started[p].keys
        /\ started[p].link = "XRefStream" <=> is_xrefstm(started[p].keys)

\* both links were started with
C22_Witness ==
    /\ main_pc = "done"
    /\ \E p, q \in DOMAIN started :
          /\ started[p].link = "XRefStream" /\ "Type" \in started[p].keys
          /\ started[q].link = "FileTrailer" /\ "Type" \notin started[q].keys

ErrorLines ==
    { "Error: Failed to open", "Error: failed to acquire Trailer", "Error: EXCEPTION" }

\* a report is one BEGIN line, at most one Error line, one END line
WellFormedReport(report) ==
    \/ report.lines = << "BEGIN", "END" >>
    \/ \E error \in ErrorLines : report.lines = << "BEGIN", error, "END" >>

\* C23: every report of single_pdf is one BEGIN line first and one END line
\* last with the Error line of a failure between them, and a failure neither
\* ends the program nor keeps the files after it from being reported
C23_ReportsAndGoesOn ==
    /\ \A p \in DOMAIN reports : WellFormedReport(reports[p])
    /\ main_pc # "crashed"

\* C25: every document opened is closed once, and none is closed again
C25_ClosedOnce ==
    \A d \in 1..opened :
        Cardinality({ p \in DOMAIN closes : closes[p] = d }) = 1

FolderReports == { p \in DOMAIN reports : reports[p].mode = "folder" }

\* the names of the reports before the one at position p
NamesBefore(p) == { reports[q].name : q \in 1..(p - 1) }

\* the name chosen for a report of the folder does not exist when it is chosen,
\* no report that exists is written over, and no two files have one report
FreshNames ==
    /\ main_pc = "single_pdf" => rptfile \notin report_dir
    /\ \A p \in FolderReports :
          /\ ~reports[p].existed
          /\ reports[p].name \notin NamesBefore(p)
    /\ tries <= Cardinality(report_dir)

\* C24: in folder mode the report name chosen does not exist when it is
\* chosen, no report is written over, no two input files share a report, and
\* the search that appends underscores comes to an end
C24_FreshReportNames ==
    /\ []FreshNames
    /\ (main_pc = "exists") ~> (main_pc = "single_pdf")

\* two files of one name were reported, the second after underscores were
\* appended to the name of its report
C24_Witness ==
    /\ main_pc = "done"
    /\ Len(reports) = 2
    /\ reports[1].file = reports[2].file
    /\ reports[1].name # reports[2].name
    /\ tries >= 2

====
